---------------------------- MODULE Spec2Model ----------------------------
(***************************************************************************)
(* Secure scoped file access and search of DesktopCommanderMCP:            *)
(* the path admission gate (utils/security.ts, utils/windowsPathFix.ts,    *)
(* tools/filesystem.ts validatePath), the file operations it guards, the   *)
(* line-addressable reader and the two directory walkers.                  *)
(*                                                                         *)
(* Paths and file contents are strings; the string functions of the        *)
(* JavaScript runtime the code calls (startsWith, includes, toLowerCase,   *)
(* split, path.resolve, path.normalize, path.dirname, readline) are        *)
(* operators computed character by character.                              *)
(***************************************************************************)
EXTENDS Integers, Sequences, FiniteSets, TLC

VARIABLES
    platform,            \* os.platform(): "linux" or "win32"
    allowedDirectories,  \* config.allowedDirectories, a sequence of strings
    disk,                \* the filesystem: key -> [name, kind, target]
    call,                \* the file operation in flight (Gate) or NoCall
    admitted,            \* history: the paths validatePath returned to the call
    touched,             \* history: the disk operations the call did at a target
    diskAtStart,         \* history: the disk when the call in flight began
    ncalls,              \* number of calls started so far
    ripgrepAvailable,    \* the availability memo: "null", "true" or "false"
    probe,               \* the probe subprocess and its timer
    rg,                  \* the engine subprocess of the search in flight
    sc,                  \* the search call in flight or NoSearch
    stack,               \* the walker's recursion: frames, innermost last
    results,             \* the results array of the search in flight
    slog,                \* history: what the search in flight validated,
                         \* listed, read and spawned
    timers,              \* timers left pending by settled searchFiles calls
    nsearch,             \* number of searches started so far
    rd,                  \* the file read in flight or NoRead
    pr                   \* concurrent availability checks and their probes

gateVars == <<platform, allowedDirectories, disk, call, admitted, touched,
              diskAtStart, ncalls>>

searchVars == <<ripgrepAvailable, probe, rg, sc, stack, results, slog,
                timers, nsearch>>

readVars == <<rd>>

probeVars == <<pr>>

vars == <<gateVars, searchVars, readVars, probeVars>>

-----------------------------------------------------------------------------
(* Bounds of the model *)

\* calls started in one behaviour
MaxCalls == 2

\* callers of the availability check that run side by side
MaxCallers == 2

\* availability checks started in one behaviour
MaxChecks == 3

\* symbolic links followed while resolving one path (ELOOP beyond it)
MaxSymlinks == 2

\* searches started in one behaviour
MaxSearches == 1

\* validations that run into their timeout during one search
MaxLate == 1

\* bytes of a file that is read
MaxLen == 6

\* the largest offset of a read, forward or from the end
MaxOffset == 3

\* the largest length of a read
MaxLength == 2

\* The thresholds of tools/filesystem.ts, scaled down to files of a few
\* bytes: the source has 10 * 1024 * 1024, 10 * 1024 * 1024, 100, 1000,
\* 10000 and 8192
LARGE_FILE_THRESHOLD == 4

LINE_COUNT_LIMIT == 4

SMALL_READ_THRESHOLD == 2

DEEP_OFFSET_THRESHOLD == 1

SAMPLE_SIZE == 2

CHUNK_SIZE == 2

\* Number.MAX_SAFE_INTEGER, scaled down with the files: more than any file
\* has lines
MAX_SAFE_INTEGER == 99

-----------------------------------------------------------------------------
(* JavaScript string functions *)

\* s.startsWith(pre)
StartsWith(s, pre) ==
    /\ Len(pre) <= Len(s)
    /\ SubSeq(s, 1, Len(pre)) = pre

\* s.includes(sub)
Includes(s, sub) ==
    \E i \in 1..(Len(s) - Len(sub) + 1) : SubSeq(s, i, i + Len(sub) - 1) = sub

\* one character of toLowerCase (the letters the model's paths use)
LowerChar(c) ==
    CASE c = "W" -> "w"
      [] c = "S" -> "s"
      [] c = "T" -> "t"
      [] c = "C" -> "c"
      [] c = "F" -> "f"
      [] c = "O" -> "o"
      [] c = "D" -> "d"
      [] c = "P" -> "p"
      [] OTHER -> c

\* one character of toUpperCase, for the drive letter
UpperChar(c) ==
    CASE c = "c" -> "C"
      [] c = "d" -> "D"
      [] OTHER -> c

RECURSIVE ToLowerCase(_)
\* s.toLowerCase()
ToLowerCase(s) ==
    IF s = "" THEN ""
    ELSE LowerChar(SubSeq(s, 1, 1)) \o ToLowerCase(SubSeq(s, 2, Len(s)))

\* the rest of s from 1-based position i on
From(s, i) == SubSeq(s, i, Len(s))

-----------------------------------------------------------------------------
(* node's path module, for the platform at hand *)

Win32 == platform = "win32"

\* path.sep
Sep == IF Win32 THEN "\\" ELSE "/"

\* a character path.* takes for a separator
IsSep(c) == c = "/" \/ (Win32 /\ c = "\\")

\* process.cwd() and os.homedir()
Cwd == IF Win32 THEN "C:\\home" ELSE "/home"

HomeDir == IF Win32 THEN "C:\\home" ELSE "/home"

\* the drive prefix ("C:") of a win32 path, "" when there is none
Drive(p) ==
    IF Win32 /\ Len(p) >= 2 /\ SubSeq(p, 2, 2) = ":" THEN SubSeq(p, 1, 2) ELSE ""

\* p without its drive prefix
NoDrive(p) == From(p, Len(Drive(p)) + 1)

\* path.isAbsolute(p)
IsAbsolute(p) == Len(NoDrive(p)) >= 1 /\ IsSep(SubSeq(NoDrive(p), 1, 1))

RECURSIVE SplitAcc(_, _, _)
\* the segments of s between separators, empty ones kept: acc holds the
\* finished segments, cur the one being read
SplitAcc(s, acc, cur) ==
    IF s = "" THEN Append(acc, cur)
    ELSE IF IsSep(SubSeq(s, 1, 1))
         THEN SplitAcc(From(s, 2), Append(acc, cur), "")
         ELSE SplitAcc(From(s, 2), acc, cur \o SubSeq(s, 1, 1))

Split(s) == SplitAcc(s, <<>>, "")

RECURSIVE Collapse(_, _, _)
\* normalizeString of node's path: "" and "." segments dropped, ".." pops
\* the last kept segment; with allowAbove (a relative path) a ".." that has
\* nothing to pop is kept
Collapse(segs, acc, allowAbove) ==
    IF segs = <<>> THEN acc
    ELSE LET s == Head(segs) IN
         IF s = "" \/ s = "." THEN Collapse(Tail(segs), acc, allowAbove)
         ELSE IF s = ".."
              THEN IF acc # <<>> /\ acc[Len(acc)] # ".."
                   THEN Collapse(Tail(segs), SubSeq(acc, 1, Len(acc) - 1), allowAbove)
                   ELSE IF allowAbove
                        THEN Collapse(Tail(segs), Append(acc, ".."), allowAbove)
                        ELSE Collapse(Tail(segs), acc, allowAbove)
              ELSE Collapse(Tail(segs), Append(acc, s), allowAbove)

RECURSIVE Join(_)
\* segs.join(path.sep)
Join(segs) ==
    IF segs = <<>> THEN ""
    ELSE IF Len(segs) = 1 THEN segs[1]
         ELSE segs[1] \o Sep \o Join(Tail(segs))

\* path.resolve(p): absolute, separators canonical, "." and ".." collapsed,
\* no trailing separator; a relative p is taken from process.cwd(), a rooted
\* win32 path without a drive takes the drive of process.cwd()
PathResolve(p) ==
    LET abs == IF IsAbsolute(p)
               THEN (IF Win32 /\ Drive(p) = "" THEN Drive(Cwd) \o p ELSE p)
               ELSE Cwd \o Sep \o NoDrive(p)
        segs == Collapse(Split(NoDrive(abs)), <<>>, FALSE)
    IN Drive(abs) \o Sep \o Join(segs)

\* path.normalize(p): as path.resolve, but a relative path stays relative
\* (and keeps the ".." it cannot pop), a trailing separator is kept, and the
\* empty result is "."
PathNormalize(p) ==
    LET rest == NoDrive(p)
        abs  == IsAbsolute(p)
        segs == Collapse(Split(rest), <<>>, ~abs)
        trail == rest # "" /\ IsSep(SubSeq(rest, Len(rest), Len(rest)))
        body == Join(segs)
        tail == IF body # "" /\ trail THEN body \o Sep ELSE body
    IN IF p = "" THEN "."
       ELSE IF abs THEN Drive(p) \o Sep \o tail
            ELSE IF tail = ""
                 THEN Drive(p) \o (IF trail THEN "." \o Sep ELSE ".")
                 ELSE Drive(p) \o tail

\* path.join(a, b) == path.normalize(a + sep + b)
PathJoin(a, b) == PathNormalize(a \o Sep \o b)

\* path.dirname(p) of a resolved absolute path
Dirname(p) ==
    LET segs == Collapse(Split(NoDrive(p)), <<>>, FALSE)
    IN IF segs = <<>> THEN p
       ELSE Drive(p) \o Sep \o Join(SubSeq(segs, 1, Len(segs) - 1))

\* path.basename(p) of a resolved absolute path
Basename(p) ==
    LET segs == Collapse(Split(NoDrive(p)), <<>>, FALSE)
    IN IF segs = <<>> THEN "" ELSE segs[Len(segs)]

\* dir + sep + name without doubling the separator of a root
Child(dir, name) ==
    IF dir # "" /\ IsSep(SubSeq(dir, Len(dir), Len(dir)))
    THEN dir \o name
    ELSE dir \o Sep \o name

-----------------------------------------------------------------------------
(* The filesystem *)

\* the result of a failed lookup (ENOENT, ELOOP)
NoPath == ""

\* the key a name is stored under: win32 filesystems ignore case
DiskKey(p) == IF Win32 THEN ToLowerCase(p) ELSE p

Node(name, kind, target) == [name |-> name, kind |-> kind, target |-> target]

\* a disk holding the given nodes
DiskOf(nodes) ==
    [k \in {DiskKey(n.name) : n \in nodes} |->
        CHOOSE n \in nodes : DiskKey(n.name) = k]

LinuxNodes ==
    { Node("/ws", "dir", ""), Node("/ws/a", "file", ""),
      Node("/ws/sub", "dir", ""), Node("/ws/a..b", "file", ""),
      Node("/ws/ln", "link", "/etc"),
      Node("/ws-x", "dir", ""), Node("/ws-x/f", "file", ""),
      Node("/etc", "dir", ""), Node("/etc/pw", "file", ""),
      Node("/home", "dir", ""), Node("/home/a", "file", "") }

Win32Nodes ==
    { Node("C:\\Temp", "dir", ""), Node("C:\\Temp\\f", "file", ""),
      Node("C:\\Temp-x", "dir", ""), Node("C:\\Temp-x\\f", "file", ""),
      Node("C:\\home", "dir", "") }

Exists(d, p) == DiskKey(p) \in DOMAIN d

RECURSIVE RealWalk(_, _, _, _)
\* fs.realpath from the existing directory cur over the segments segs:
\* every segment must exist, a symbolic link is replaced by its target
RealWalk(d, cur, segs, fuel) ==
    IF segs = <<>> THEN cur
    ELSE LET next == Child(cur, Head(segs)) IN
         IF ~Exists(d, next) THEN NoPath
         ELSE LET n == d[DiskKey(next)] IN
              IF n.kind = "link"
              THEN IF fuel = 0 THEN NoPath
                   ELSE RealWalk(d, Drive(n.target) \o Sep,
                                 Collapse(Split(NoDrive(n.target)), <<>>, FALSE)
                                     \o Tail(segs),
                                 fuel - 1)
              ELSE RealWalk(d, n.name, Tail(segs), fuel)

\* fs.realpath(p) for a resolved absolute p; NoPath when it throws
RealPath(d, p) ==
    RealWalk(d, Drive(p) \o Sep, Collapse(Split(NoDrive(p)), <<>>, FALSE),
             MaxSymlinks)

\* where a path whose last segment need not exist lands on the disk: the
\* real path of its parent plus its own name (NoPath without the parent)
Landing(d, p) ==
    IF Basename(p) = "" THEN RealPath(d, p)
    ELSE LET rp == RealPath(d, Dirname(p)) IN
         IF rp = NoPath THEN NoPath
         ELSE IF Exists(d, rp) /\ d[DiskKey(rp)].kind # "dir" THEN NoPath
              ELSE Child(rp, Basename(p))

\* the disk with node n stored (replacing what its key held)
Store(d, n) ==
    [k \in DOMAIN d \cup {DiskKey(n.name)} |->
        IF k = DiskKey(n.name) THEN n ELSE d[k]]

\* the keys at or beneath p
Subtree(d, p) ==
    {k \in DOMAIN d : k = DiskKey(p) \/ StartsWith(k, DiskKey(Child(p, "")))}

-----------------------------------------------------------------------------
(* utils/windowsPathFix.ts *)

RECURSIVE CollapseBackslashes(_)
\* inputPath.replace(/\\+/g, '\\')
CollapseBackslashes(s) ==
    IF Len(s) < 2 THEN s
    ELSE IF SubSeq(s, 1, 1) = "\\" /\ SubSeq(s, 2, 2) = "\\"
         THEN CollapseBackslashes(From(s, 2))
         ELSE SubSeq(s, 1, 1) \o CollapseBackslashes(From(s, 2))

normalizeWindowsPath(inputPath) ==
    IF inputPath = "" THEN inputPath
    ELSE IF Win32
         THEN LET n == PathNormalize(CollapseBackslashes(inputPath)) IN
              IF Drive(n) # "" /\ UpperChar(SubSeq(n, 1, 1)) # SubSeq(n, 1, 1)
              THEN UpperChar(SubSeq(n, 1, 1)) \o From(n, 2)
              ELSE n
         ELSE PathNormalize(inputPath)

expandHome(filepath) ==
    IF filepath = "" THEN filepath
    ELSE IF StartsWith(filepath, "~/") \/ filepath = "~"
         THEN PathJoin(HomeDir, From(filepath, 2))
         ELSE filepath

toAbsolutePath(inputPath) ==
    IF inputPath = "" THEN inputPath
    ELSE PathResolve(expandHome(normalizeWindowsPath(inputPath)))

-----------------------------------------------------------------------------
(* utils/security.ts and the admission gate of tools/filesystem.ts *)

\* the comparison form of a name under the platform's case policy
Fold(s) == IF Win32 THEN ToLowerCase(s) ELSE s

\* a sequence as the set of its elements
Range(seq) == {seq[i] : i \in 1..Len(seq)}

\* secureIsPathAllowed with the prefix test not qualified by the separator
secureIsPathAllowedNoSep(targetPath, allowedDirs) ==
    LET normalizedPath == PathResolve(targetPath) IN
    IF Includes(normalizedPath, "..") THEN FALSE
    ELSE \E dir \in Range(allowedDirs) :
            LET normalizedDir == PathResolve(dir) IN
            IF Win32
            THEN StartsWith(ToLowerCase(normalizedPath), ToLowerCase(normalizedDir))
            ELSE StartsWith(normalizedPath, normalizedDir)

\* isPathAllowed of utils/security.ts
secureIsPathAllowed(targetPath, allowedDirs) ==
    LET normalizedPath == PathResolve(targetPath) IN
    IF Includes(normalizedPath, "..") THEN FALSE
    ELSE \E dir \in Range(allowedDirs) :
            LET normalizedDir == PathResolve(dir) IN
            IF Win32
            THEN \/ ToLowerCase(normalizedPath) = ToLowerCase(normalizedDir)
                 \/ StartsWith(ToLowerCase(normalizedPath),
                               ToLowerCase(normalizedDir) \o Sep)
            ELSE \/ normalizedPath = normalizedDir
                 \/ StartsWith(normalizedPath, normalizedDir \o Sep)

\* getAllowedDirs: the configured list (always an array in this model)
getAllowedDirs == allowedDirectories

\* isPathAllowed taking an empty allow-list for "no restriction"
isPathAllowedEmptyBypass(pathToCheck) ==
    IF Len(allowedDirectories) = 0 THEN TRUE
    ELSE \E dir \in Range(allowedDirectories) :
            StartsWith(Fold(PathResolve(pathToCheck)), Fold(PathResolve(dir)) \o Sep)
            \/ Fold(PathResolve(pathToCheck)) = Fold(PathResolve(dir))

\* isPathAllowed of tools/filesystem.ts
isPathAllowed(pathToCheck) ==
    IF Len(getAllowedDirs) = 0 THEN FALSE
    ELSE secureIsPathAllowed(pathToCheck, getAllowedDirs)

RECURSIVE validateParentDirectories(_, _)
validateParentDirectories(d, directoryPath) ==
    LET parentDir == Dirname(directoryPath) IN
    IF parentDir = directoryPath \/ parentDir = Dirname(parentDir) THEN FALSE
    ELSE IF RealPath(d, parentDir) # NoPath THEN TRUE
         ELSE validateParentDirectories(d, parentDir)

Denied == [ok |-> FALSE, path |-> "", error |-> "Path not allowed"]

TimedOut == [ok |-> FALSE, path |-> "", error |-> "timeout"]

Allowed(p) == [ok |-> TRUE, path |-> p, error |-> ""]

\* validationOperation testing the path as requested, before it is resolved
validationOperationRawCheck(d, requestedPath) ==
    LET absolute == PathResolve(requestedPath) IN
    IF ~\E dir \in Range(allowedDirectories) :
            requestedPath = dir \/ StartsWith(requestedPath, dir \o Sep)
    THEN [ok |-> FALSE, path |-> "", error |-> "Path not allowed"]
    ELSE IF RealPath(d, absolute) # NoPath
         THEN [ok |-> TRUE, path |-> RealPath(d, absolute), error |-> ""]
         ELSE [ok |-> TRUE, path |-> absolute, error |-> ""]

\* validationOperation of validatePath on disk d
validationOperation(d, requestedPath) ==
    LET absolute == toAbsolutePath(requestedPath) IN
    IF ~isPathAllowed(absolute) THEN Denied
    ELSE IF RealPath(d, absolute) # NoPath
         THEN Allowed(RealPath(d, absolute))
         ELSE IF validateParentDirectories(d, absolute)
              THEN Allowed(absolute)
              ELSE Allowed(absolute)

\* validatePath letting the denial of a path that is not allowed through
\* when the timer has fired
validatePathDenialFirst(d, requestedPath, late) ==
    IF late /\ validationOperation(d, requestedPath).ok THEN TimedOut
    ELSE validationOperation(d, requestedPath)

\* validatePath: the operation raced against its timeout; late is whether
\* the timer of withTimeout won
validatePath(d, requestedPath, late) ==
    IF late THEN TimedOut ELSE validationOperation(d, requestedPath)

-----------------------------------------------------------------------------
(* The state of the search module (search.ts) before any search *)

\* the probe subprocess: proc is "none", "running", "killed", "errored" or
\* "exited"; timer is whether its 2 s timer is still to fire
NoProbe == [proc |-> "none", timer |-> FALSE, spawns |-> 0]

\* the engine subprocess and the closure of the promise of searchCode
NoEngine == [proc |-> "none", timeoutId |-> FALSE, killTimer |-> FALSE,
             hasTimedOut |-> FALSE, killed |-> FALSE, stubborn |-> FALSE,
             sigkill |-> FALSE, stdoutBuffer |-> <<>>, settled |-> FALSE,
             atDeadline |-> <<>>]

\* a search call: its arguments, the locals of its closure, where it stands
\* and, once it has settled, what its caller got
NoSearch == [op |-> "none", pc |-> "idle", rootPath |-> "", validPath |-> "",
             pattern |-> "", filePattern |-> "", ignoreCase |-> TRUE,
             maxResults |-> 0,
             maxDepth |-> 0, contextLines |-> 0, searchCancelled |-> FALSE,
             expired |-> FALSE, timer |-> "none", raced |-> FALSE,
             served |-> "", error |-> "", returned |-> <<>>]

NoLog == [validated |-> {}, seen |-> {}, readdirs |-> {}, reads |-> {},
          spawnedOn |-> {}, timeouts |-> 0, failed |-> {}, captured |-> {}]

\* the log after the search in flight met the failure what of the probe or
\* of the engine
Failed(log, what) == [log EXCEPT !.failed = @ \cup {what}]

\* the log after an event of the probe: a failure of the call if the call
\* awaits the probe and the probe answers no
ProbeAnswered(log, call0, value, what) ==
    IF call0.pc = "probing" /\ ~value THEN Failed(log, what) ELSE log

\* whether the next validation may run into its timeout
LateChoices == IF slog.timeouts < MaxLate THEN BOOLEAN ELSE {FALSE}

\* the log after a validation that was late or not
Timed(log, late) ==
    IF late THEN [log EXCEPT !.timeouts = @ + 1] ELSE log

\* the log after validatePath settled with r: its capture() calls, made
\* before it throws
Captured(log, r) ==
    IF r.ok THEN log
    ELSE [log EXCEPT !.captured = @ \cup
            {IF r.error = TimedOut.error
             THEN "server_path_validation_timeout"
             ELSE "server_path_validation_error"}]

\* timers of searchFiles calls that have settled, by whether their promise
\* was handed to Promise.race, and the rejections nobody handled
NoTimers == [raced |-> 0, unraced |-> 0, unhandled |-> 0]

\* no read in flight
NoRead == [pc |-> "idle"]

\* no availability check made yet: where each caller stands ("idle",
\* "waiting" for its promise, or "resolved" with value), the probes spawned
\* so far, and the number of checks started
NoChecks == [callers |-> [c \in 1..MaxCallers |->
                            [pc |-> "idle", value |-> FALSE]],
             probes |-> <<>>, checks |-> 0]

SearchIdle ==
    /\ rd = NoRead
    /\ pr = NoChecks
    /\ ripgrepAvailable = "null"
    /\ probe = NoProbe
    /\ rg = NoEngine
    /\ sc = NoSearch
    /\ stack = <<>>
    /\ results = <<>>
    /\ slog = NoLog
    /\ timers = NoTimers
    /\ nsearch = 0

-----------------------------------------------------------------------------
(* The guarded file operations of tools/filesystem.ts *)

NoCall == [op |-> "none", args |-> <<>>, valid |-> <<>>, pc |-> "idle",
           error |-> "", timedOut |-> FALSE]

\* requested paths, as a caller may write them
LinuxRequests ==
    { "/ws", "/ws/a", "/WS/a", "/ws/../etc/pw", "/ws/sub/../a", "/ws-x/f",
      "/ws-x", "/ws/ln", "/ws/ln/pw", "/ws/a..b", "/etc/pw", "/ws/sub/n/m",
      "/ws/new", "/ws/../ws-x/f", "~/a", "a", "/ws/n..m" }

Win32Requests ==
    { "C:\\Temp", "C:\\Temp\\f", "c:\\temp\\f", "C:\\\\Temp\\\\f", "C:/Temp/f",
      "C:\\Temp-x\\f", "C:\\Temp\\..\\Temp-x\\f", "C:\\Temp\\sub\\..\\f",
      "C:\\Temp\\new" }

Requests == IF Win32 THEN Win32Requests ELSE LinuxRequests

\* the sources and destinations moveFile is called with
MoveSources ==
    IF Win32 THEN {"C:\\Temp\\f", "C:\\Temp-x\\f"}
    ELSE {"/ws/a", "/ws/sub", "/ws-x/f", "/ws/ln", "/ws/sub/../a"}

MoveDests ==
    IF Win32 THEN {"C:\\Temp\\new", "C:\\Temp-x\\f", "c:\\temp\\F"}
    ELSE {"/ws/new", "/ws/sub/n", "/ws-x/f", "/etc/pw", "/ws/ln/pw"}

\* configured allow-lists
LinuxAllowLists ==
    { <<>>, <<"/ws">>, <<"/ws", "/home">>, <<"/WS/">>, <<"/">>,
      <<"/ws", "/ws-x">> }

Win32AllowLists == { <<>>, <<"C:\\Temp">>, <<"c:\\temp\\">> }

SingleOps ==
    {"writeFile", "createDirectory", "listDirectory", "getFileInfo",
     "secureFileOperation"}

\* a call begins: its arguments are fixed, nothing has been validated
StartCall ==
    /\ UNCHANGED <<searchVars, readVars, probeVars>>
    /\ call = NoCall
    /\ ncalls < MaxCalls
    /\ \E op \in SingleOps \cup {"moveFile"} :
         \E a \in Requests, src \in MoveSources, dst \in MoveDests :
            /\ op = "moveFile" => a = src
            /\ op # "moveFile" => (src = CHOOSE x \in MoveSources : TRUE)
                                  /\ (dst = CHOOSE x \in MoveDests : TRUE)
            /\ call' = [op |-> op,
                        args |-> IF op = "moveFile" THEN <<src, dst>> ELSE <<a>>,
                        valid |-> <<>>, pc |-> "validate", error |-> "",
                        timedOut |-> FALSE]
    /\ ncalls' = ncalls + 1
    /\ diskAtStart' = disk
    /\ admitted' = {}
    /\ touched' = {}
    /\ UNCHANGED <<platform, allowedDirectories, disk>>

\* await validatePath(...) of the next path argument; a rejection ends the
\* call, the last admission moves it on to its disk operation; timedOut is
\* whether the timer of withTimeout fired in this validation
ValidateStep ==
    /\ UNCHANGED <<searchVars, readVars, probeVars>>
    /\ call.pc = "validate"
    /\ call.op # "secureFileOperation"
    /\ \E late \in BOOLEAN :
         LET r == validatePath(disk, call.args[Len(call.valid) + 1], late) IN
         IF r.ok
         THEN /\ call' = [call EXCEPT
                            !.valid = Append(@, r.path),
                            !.timedOut = late,
                            !.pc = IF Len(call.valid) + 1 = Len(call.args)
                                   THEN "act" ELSE "validate"]
              /\ admitted' = admitted \cup {r.path}
         ELSE /\ call' = [call EXCEPT !.pc = "done", !.error = r.error,
                                      !.timedOut = late]
              /\ UNCHANGED admitted
    /\ UNCHANGED <<platform, allowedDirectories, disk, touched, diskAtStart,
                   ncalls>>

Touch(op, path) == [op |-> op, path |-> path]

\* fs.writeFile / fs.appendFile (validPath, content)
WriteFileAct ==
    /\ UNCHANGED <<searchVars, readVars, probeVars>>
    /\ call.pc = "act" /\ call.op = "writeFile"
    /\ LET validPath == call.valid[1]
           loc == Landing(disk, validPath)
           ok == /\ loc # NoPath
                 /\ Exists(disk, loc) => disk[DiskKey(loc)].kind = "file"
       IN /\ touched' = touched \cup {Touch("writeFile", validPath)}
          /\ disk' = IF ok THEN Store(disk, Node(loc, "file", "")) ELSE disk
          /\ call' = [call EXCEPT !.pc = "done",
                                  !.error = IF ok THEN "" ELSE "fs"]
    /\ UNCHANGED <<platform, allowedDirectories, admitted, diskAtStart, ncalls>>

RECURSIVE MkdirP(_, _, _, _)
\* fs.mkdir(p, {recursive: true}) from the existing directory cur: the
\* missing segments are created; NoPath-keyed failure is the disk unchanged
MkdirP(d, cur, segs, fuel) ==
    IF segs = <<>> THEN d
    ELSE LET next == Child(cur, Head(segs)) IN
         IF ~Exists(d, next)
         THEN MkdirP(Store(d, Node(next, "dir", "")), next, Tail(segs), fuel)
         ELSE LET n == d[DiskKey(next)] IN
              IF n.kind = "dir" THEN MkdirP(d, n.name, Tail(segs), fuel)
              ELSE IF n.kind = "link" /\ fuel > 0
                        /\ RealPath(d, n.target) # NoPath
                   THEN MkdirP(d, RealPath(d, n.target), Tail(segs), fuel - 1)
                   ELSE d

\* whether mkdir -p of p meets a file on its way (EEXIST / ENOTDIR)
MkdirFails(d, p) ==
    LET made == MkdirP(d, Drive(p) \o Sep,
                       Collapse(Split(NoDrive(p)), <<>>, FALSE), MaxSymlinks)
    IN RealPath(made, p) = NoPath

\* fs.mkdir(validPath, { recursive: true })
CreateDirectoryAct ==
    /\ UNCHANGED <<searchVars, readVars, probeVars>>
    /\ call.pc = "act" /\ call.op = "createDirectory"
    /\ LET validPath == call.valid[1]
           made == MkdirP(disk, Drive(validPath) \o Sep,
                          Collapse(Split(NoDrive(validPath)), <<>>, FALSE),
                          MaxSymlinks)
       IN /\ touched' = touched \cup {Touch("mkdir", validPath)}
          /\ disk' = IF MkdirFails(disk, validPath) THEN disk ELSE made
          /\ call' = [call EXCEPT !.pc = "done",
                        !.error = IF MkdirFails(disk, validPath) THEN "fs" ELSE ""]
    /\ UNCHANGED <<platform, allowedDirectories, admitted, diskAtStart, ncalls>>

\* fs.readdir(validPath, { withFileTypes: true })
ListDirectoryAct ==
    /\ UNCHANGED <<searchVars, readVars, probeVars>>
    /\ call.pc = "act" /\ call.op = "listDirectory"
    /\ LET validPath == call.valid[1]
           rp == RealPath(disk, validPath)
           ok == rp # NoPath /\ (Exists(disk, rp) => disk[DiskKey(rp)].kind = "dir")
       IN /\ touched' = touched \cup {Touch("readdir", validPath)}
          /\ call' = [call EXCEPT !.pc = "done",
                                  !.error = IF ok THEN "" ELSE "fs"]
    /\ UNCHANGED <<platform, allowedDirectories, disk, admitted, diskAtStart,
                   ncalls>>

\* fs.stat(validPath)
GetFileInfoAct ==
    /\ UNCHANGED <<searchVars, readVars, probeVars>>
    /\ call.pc = "act" /\ call.op = "getFileInfo"
    /\ LET validPath == call.valid[1]
           ok == RealPath(disk, validPath) # NoPath
       IN /\ touched' = touched \cup {Touch("stat", validPath)}
          /\ call' = [call EXCEPT !.pc = "done",
                                  !.error = IF ok THEN "" ELSE "fs"]
    /\ UNCHANGED <<platform, allowedDirectories, disk, admitted, diskAtStart,
                   ncalls>>

\* the disk after rename(from, to): the node at from and everything beneath
\* it moves to to
Renamed(d, from, to) ==
    LET moving == Subtree(d, from)
        moved(k) == [d[k] EXCEPT
                       !.name = to \o From(d[k].name, Len(from) + 1)]
        staying == (DOMAIN d) \ moving
        newKeys == {DiskKey(moved(k).name) : k \in moving}
    IN [k \in staying \cup newKeys |->
          IF k \in newKeys
          THEN moved(CHOOSE m \in moving : DiskKey(moved(m).name) = k)
          ELSE d[k]]

\* whether rename(from, to) succeeds: from exists, to has a parent directory
\* and is not beneath from, a directory only replaces an empty directory and
\* a file never replaces a directory
RenameOk(d, from, to) ==
    LET loc == Landing(d, to) IN
    /\ Exists(d, from)
    /\ loc # NoPath
    /\ ~StartsWith(DiskKey(loc), DiskKey(Child(from, "")))
    /\ Exists(d, loc) /\ DiskKey(loc) # DiskKey(from) =>
          IF d[DiskKey(from)].kind = "dir"
          THEN d[DiskKey(loc)].kind = "dir" /\ Subtree(d, loc) = {DiskKey(loc)}
          ELSE d[DiskKey(loc)].kind # "dir"

\* moveFile renaming to the destination as requested, once the source alone
\* is validated
MoveFileActUnvalidatedDest ==
    /\ UNCHANGED <<searchVars, readVars, probeVars>>
    /\ call.pc = "validate" /\ call.op = "moveFile" /\ Len(call.valid) = 1
    /\ LET validSourcePath == call.valid[1]
           destinationPath == PathResolve(call.args[2])
           ok == RenameOk(disk, validSourcePath, destinationPath)
       IN /\ touched' = touched \cup {Touch("rename", validSourcePath),
                                      Touch("rename", destinationPath)}
          /\ disk' = IF ok
                     THEN Renamed(disk, validSourcePath,
                                  Landing(disk, destinationPath))
                     ELSE disk
          /\ call' = [call EXCEPT !.pc = "done",
                                  !.error = IF ok THEN "" ELSE "fs"]
    /\ UNCHANGED <<platform, allowedDirectories, admitted, diskAtStart, ncalls>>

\* fs.rename(validSourcePath, validDestPath)
MoveFileAct ==
    /\ UNCHANGED <<searchVars, readVars, probeVars>>
    /\ call.pc = "act" /\ call.op = "moveFile"
    /\ LET validSourcePath == call.valid[1]
           validDestPath == call.valid[2]
           ok == RenameOk(disk, validSourcePath, validDestPath)
       IN /\ touched' = touched \cup {Touch("rename", validSourcePath),
                                      Touch("rename", validDestPath)}
          /\ disk' = IF ok
                     THEN Renamed(disk, validSourcePath,
                                  Landing(disk, validDestPath))
                     ELSE disk
          /\ call' = [call EXCEPT !.pc = "done",
                                  !.error = IF ok THEN "" ELSE "fs"]
    /\ UNCHANGED <<platform, allowedDirectories, admitted, diskAtStart, ncalls>>

\* the check of secureFileOperation (utils/security.ts): params.path is
\* tested as given, against config.allowedDirectories || []
SecureFileOperationCheck ==
    /\ UNCHANGED <<searchVars, readVars, probeVars>>
    /\ call.pc = "validate"
    /\ call.op = "secureFileOperation"
    /\ LET targetPath == call.args[1] IN
       IF ~secureIsPathAllowed(targetPath, allowedDirectories)
       THEN /\ call' = [call EXCEPT !.pc = "done", !.error = "Access denied"]
            /\ UNCHANGED admitted
       ELSE /\ call' = [call EXCEPT !.valid = <<targetPath>>, !.pc = "act"]
            /\ admitted' = admitted \cup {targetPath}
    /\ UNCHANGED <<platform, allowedDirectories, disk, touched, diskAtStart,
                   ncalls>>

\* return operation(...args) of secureFileOperation
SecureFileOperationAct ==
    /\ UNCHANGED <<searchVars, readVars, probeVars>>
    /\ call.pc = "act" /\ call.op = "secureFileOperation"
    /\ touched' = touched \cup {Touch("operation", call.valid[1])}
    /\ call' = [call EXCEPT !.pc = "done"]
    /\ UNCHANGED <<platform, allowedDirectories, disk, admitted, diskAtStart,
                   ncalls>>

\* the call settles: its promise resolves or rejects with call.error
Return ==
    /\ UNCHANGED <<searchVars, readVars, probeVars>>
    /\ call.pc = "done"
    /\ call' = NoCall
    /\ UNCHANGED <<platform, allowedDirectories, disk, admitted, touched,
                   diskAtStart, ncalls>>

Init ==
    /\ platform \in {"linux", "win32"}
    /\ allowedDirectories \in
          (IF Win32 THEN Win32AllowLists ELSE LinuxAllowLists)
    /\ disk = DiskOf(IF Win32 THEN Win32Nodes ELSE LinuxNodes)
    /\ call = NoCall
    /\ admitted = {}
    /\ touched = {}
    /\ diskAtStart = disk
    /\ ncalls = 0
    /\ SearchIdle

Next ==
    \/ StartCall
    \/ ValidateStep
    \/ WriteFileAct
    \/ CreateDirectoryAct
    \/ ListDirectoryAct
    \/ GetFileInfoAct
    \/ MoveFileAct
    \/ SecureFileOperationCheck
    \/ SecureFileOperationAct
    \/ Return

Spec == Init /\ [][Next]_vars

-----------------------------------------------------------------------------
(* What "equals or is nested under an allowed directory" means, told by    *)
(* path segments and not by string prefixes                                *)

\* the segments of the resolved form of p, drive first
Segments(p) ==
    LET r == PathResolve(p)
        segs == Collapse(Split(NoDrive(r)), <<>>, FALSE)
    IN <<Fold(Drive(r))>> \o [i \in 1..Len(segs) |-> Fold(segs[i])]

IsPrefixSeq(a, b) == Len(a) <= Len(b) /\ SubSeq(b, 1, Len(a)) = a

NestedUnder(p, dir) == IsPrefixSeq(Segments(dir), Segments(p))

InsideAllowed(p) == \E dir \in Range(allowedDirectories) : NestedUnder(p, dir)

\* whether the path, as requested, has a parent-directory segment
HasParentSegment(p) == ".." \in Range(Split(NoDrive(p)))

\* the path arguments validatePath has admitted so far in the call
AdmittedArgs == {call.args[i] : i \in 1..Len(call.valid)}

\* the call ended on a denial of its next path argument
DeniedNow ==
    /\ call.pc = "done"
    /\ call.error \in {"Path not allowed", "Access denied"}

DeniedArg == call.args[Len(call.valid) + 1]

GateOps == {"writeFile", "createDirectory", "listDirectory", "getFileInfo",
            "moveFile"}

-----------------------------------------------------------------------------
(* Claims about the admission gate, checked under Spec *)

\* C1: admission admits a path if and only if its resolved absolute form
\* equals a member of the allow-list or is nested under one, under the
\* platform's case policy.
C1_AdmitIffInsideAllowed ==
    call.op \in GateOps =>
        /\ \A a \in AdmittedArgs : InsideAllowed(toAbsolutePath(a))
        /\ DeniedNow => ~InsideAllowed(toAbsolutePath(DeniedArg))

\* C2: every path validatePath returns equals or is nested under an allowed
\* directory, also when the requested path is or passes through a symbolic
\* link.
C2_ReturnedPathInsideAllowed ==
    call.op \in GateOps => \A p \in admitted : InsideAllowed(p)

Holders(p) == {dir \in Range(allowedDirectories) : NestedUnder(p, dir)}

\* C4: a path counts as nested under an allowed directory only when the
\* directory followed by a separator is a prefix of it: a sibling whose name
\* merely starts with the directory's name (and everything beneath it) is
\* denied, while the directory itself and what lies beneath it are admitted
\* (the directory not being a filesystem root, the path holding no "..").
C4_SeparatorQualifiedPrefix ==
    call.op \in GateOps =>
        /\ \A a \in AdmittedArgs : InsideAllowed(toAbsolutePath(a))
        /\ DeniedNow =>
              LET p == toAbsolutePath(DeniedArg) IN
              \/ Holders(p) = {}
              \/ Includes(p, "..")
              \/ \A dir \in Holders(p) : Len(Segments(dir)) = 1

C4_Witness ==
    /\ allowedDirectories = <<"/ws">>
    /\ call.op \in GateOps
    /\ call.pc = "done"
    /\ call.args[1] = "/ws-x/f"
    /\ call.error = "Path not allowed"

\* C5: with an empty allow-list every path is denied: nothing is admitted
\* and no disk operation is done.
C5_EmptyAllowListDeniesAll ==
    Len(allowedDirectories) = 0 =>
        /\ admitted = {}
        /\ touched = {}
        /\ disk = diskAtStart
        /\ call.pc \notin {"act"}
        /\ call.pc = "done" => call.error # ""

C5_Witness ==
    /\ Len(allowedDirectories) = 0
    /\ call.op = "writeFile"
    /\ DeniedNow

\* C6: writeFile, createDirectory, listDirectory, getFileInfo and moveFile
\* touch the disk at a target only after every path argument was admitted,
\* and only at admitted paths; a moveFile whose source or destination is
\* refused renames nothing and leaves the disk as it was.
C6_TouchOnlyAfterAdmission ==
    call.op \in GateOps =>
        /\ touched # {} =>
              /\ Len(call.valid) = Len(call.args)
              /\ \A t \in touched : t.path \in admitted
        /\ (call.pc = "done" /\ Len(call.valid) < Len(call.args)) =>
              /\ touched = {}
              /\ disk = diskAtStart

C6_Witness ==
    /\ call.op = "moveFile"
    /\ call.pc = "done"
    /\ Len(call.valid) = 1
    /\ call.error = "Path not allowed"
    /\ disk = diskAtStart

-----------------------------------------------------------------------------
(* The corpus the searches run on *)

SearchNodes ==
    { Node("/ws", "dir", ""), Node("/ws/a", "file", ""),
      Node("/ws/a..b", "file", ""), Node("/ws/ln", "link", "/etc"),
      Node("/ws/sub", "dir", ""), Node("/ws/sub/c", "file", ""),
      Node("/ws/sub/d", "dir", ""),
      Node("/ws/.git", "dir", ""), Node("/ws/.git/h", "file", ""),
      Node("/etc", "dir", ""), Node("/etc/pw", "file", "") }

\* what fs.readFile(path, 'utf-8') yields
FileContent(p) ==
    CASE p = "/ws/a"       -> "foo\nbar foo foo\n"
      [] p = "/ws/a..b"    -> "foo"
      [] p = "/ws/sub/c"   -> "x\nFoo\ny"
      [] p = "/ws/.git/h"  -> "foo"
      [] p = "/etc/pw"     -> "foo\n"
      [] OTHER             -> ""

\* the order in which a directory listing yields names
NameOrder == <<".git", "a", "a..b", "c", "d", "h", "ln", "pw", "sub">>

\* fs.readdir succeeds on a directory only
CanReaddir(d, dir) == Exists(d, dir) /\ d[DiskKey(dir)].kind = "dir"

\* the names fs.readdir(dir) yields
Entries(d, dir) ==
    SelectSeq(NameOrder, LAMBDA n : Exists(d, Child(dir, n)))

\* Dirent.isDirectory / Dirent.isFile: a symbolic link is neither
IsDirectory(d, p) == Exists(d, p) /\ d[DiskKey(p)].kind = "dir"

IsFile(d, p) == Exists(d, p) /\ d[DiskKey(p)].kind = "file"

RECURSIVE SplitNewlineAcc(_, _, _)
SplitNewlineAcc(s, acc, cur) ==
    IF s = "" THEN Append(acc, cur)
    ELSE IF SubSeq(s, 1, 1) = "\n"
         THEN SplitNewlineAcc(From(s, 2), Append(acc, cur), "")
         ELSE SplitNewlineAcc(From(s, 2), acc, cur \o SubSeq(s, 1, 1))

\* content.split('\n')
SplitNewline(s) == SplitNewlineAcc(s, <<>>, "")

IsSpace(c) == c \in {" ", "\t", "\r", "\n"}

RECURSIVE TrimStart(_)
TrimStart(s) ==
    IF s # "" /\ IsSpace(SubSeq(s, 1, 1)) THEN TrimStart(From(s, 2)) ELSE s

RECURSIVE TrimEnd(_)
TrimEnd(s) ==
    IF s # "" /\ IsSpace(SubSeq(s, Len(s), Len(s)))
    THEN TrimEnd(SubSeq(s, 1, Len(s) - 1)) ELSE s

\* s.trim()
Trim(s) == TrimEnd(TrimStart(s))

\* new RegExp(pattern, ignoreCase ? 'i' : '').test(line) for a pattern of
\* literal characters
RegexTest(pattern, ignoreCase, line) ==
    IF ignoreCase THEN Includes(ToLowerCase(line), ToLowerCase(pattern))
    ELSE Includes(line, pattern)

\* the SearchResult record
SearchResult(file, line, match) == [file |-> file, line |-> line, match |-> match]

Min(a, b) == IF a <= b THEN a ELSE b

Max(a, b) == IF a >= b THEN a ELSE b

-----------------------------------------------------------------------------
(* What the two content engines find in one file *)

\* the indices lo..hi except i, in order
ContextIndices(lo, hi, i) ==
    SelectSeq([k \in 1..(hi - lo + 1) |-> lo + k - 1], LAMBDA j : j # i)

\* the context records searchCodeFallback pushes around the matching line i
FallbackContext(file, lines, i, contextLines) ==
    LET idx == ContextIndices(Max(1, i - contextLines),
                              Min(Len(lines), i + contextLines), i)
    IN [k \in 1..Len(idx) |-> SearchResult(file, idx[k], Trim(lines[idx[k]]))]

RECURSIVE FallbackScan(_, _, _, _, _)
\* the loop of searchCodeFallback over the lines of one file, from the
\* 1-based line i on; o holds pattern, ignoreCase, contextLines, maxResults
FallbackScan(res, file, lines, i, o) ==
    IF i > Len(lines) THEN res
    ELSE IF RegexTest(o.pattern, o.ignoreCase, lines[i])
         THEN LET pushed == Append(res, SearchResult(file, i, Trim(lines[i])))
                  withCtx == IF o.contextLines > 0
                             THEN pushed \o FallbackContext(file, lines, i,
                                                            o.contextLines)
                             ELSE pushed
              IN IF Len(withCtx) >= o.maxResults THEN withCtx
                 ELSE FallbackScan(withCtx, file, lines, i + 1, o)
         ELSE FallbackScan(res, file, lines, i + 1, o)

RECURSIVE Submatches(_, _, _)
\* the texts of the non-overlapping occurrences of the pattern in a line,
\* left to right, as the engine reports them in data.submatches
Submatches(line, pattern, ignoreCase) ==
    IF Len(line) < Len(pattern) \/ pattern = "" THEN <<>>
    ELSE LET head == SubSeq(line, 1, Len(pattern)) IN
         IF RegexTest(pattern, ignoreCase, head)
         THEN <<head>> \o Submatches(From(line, Len(pattern) + 1), pattern,
                                     ignoreCase)
         ELSE Submatches(From(line, 2), pattern, ignoreCase)

\* the lines of a file as the engine numbers them: a final terminator does
\* not open another line
EngineLines(content) ==
    LET parts == SplitNewline(content) IN
    IF content = "" THEN <<>>
    ELSE IF parts[Len(parts)] = "" THEN SubSeq(parts, 1, Len(parts) - 1)
         ELSE parts

\* the first n elements of a sequence
Take(seq, n) == SubSeq(seq, 1, Min(n, Len(seq)))

\* the output records of the engine for one file under the arguments
\* -i, -m maxResults and -C contextLines
EngineRecordsOfFile(file, o) ==
    LET lines == EngineLines(FileContent(file))
        all == SelectSeq([k \in 1..Len(lines) |-> k],
                   LAMBDA k : RegexTest(o.pattern, o.ignoreCase, lines[k]))
        hits == Range(Take(all, o.maxResults))
        near(k) == \E h \in hits : k - h <= o.contextLines /\ h - k <= o.contextLines
        shown == SelectSeq([k \in 1..Len(lines) |-> k],
                   LAMBDA k : k \in hits \/ (o.contextLines > 0 /\ near(k)))
    IN [n \in 1..Len(shown) |->
          LET k == shown[n] IN
          [type |-> IF k \in hits THEN "match" ELSE "context",
           path |-> file, line_number |-> k, text |-> lines[k] \o "\n",
           submatches |-> IF k \in hits
                          THEN Submatches(lines[k], o.pattern, o.ignoreCase)
                          ELSE <<>>]]

\* a name the engine skips without --hidden
IsHidden(name) == StartsWith(name, ".")

RECURSIVE EngineFiles(_, _, _)
\* the files the engine visits below dir, for the listing names still to
\* go: hidden entries skipped, symbolic links not followed
EngineFiles(d, dir, names) ==
    IF names = <<>> THEN <<>>
    ELSE LET p == Child(dir, Head(names))
             rest == EngineFiles(d, dir, Tail(names))
         IN IF IsHidden(Head(names)) THEN rest
            ELSE IF IsFile(d, p) THEN <<p>> \o rest
            ELSE IF IsDirectory(d, p)
                 THEN EngineFiles(d, p, Entries(d, p)) \o rest
                 ELSE rest

RECURSIVE Flatten(_)
Flatten(seqs) ==
    IF seqs = <<>> THEN <<>> ELSE Head(seqs) \o Flatten(Tail(seqs))

\* everything the engine writes to its output for a run on validPath
EngineOutput(d, validPath, o) ==
    LET files == IF IsFile(d, validPath) THEN <<validPath>>
                 ELSE IF IsDirectory(d, validPath)
                      THEN EngineFiles(d, validPath, Entries(d, validPath))
                      ELSE <<>>
    IN Flatten([k \in 1..Len(files) |-> EngineRecordsOfFile(files[k], o)])

RECURSIVE ParseRecords(_, _, _)
\* the close handler of searchCode over the buffered output records
ParseRecords(res, recs, contextLines) ==
    IF recs = <<>> THEN res
    ELSE LET r == Head(recs) IN
         IF r.type = "match"
         THEN ParseRecords(
                  res \o [k \in 1..Len(r.submatches) |->
                             SearchResult(r.path, r.line_number, r.submatches[k])],
                  Tail(recs), contextLines)
         ELSE IF r.type = "context" /\ contextLines > 0
              THEN ParseRecords(Append(res, SearchResult(r.path, r.line_number,
                                                         Trim(r.text))),
                                Tail(recs), contextLines)
              ELSE ParseRecords(res, Tail(recs), contextLines)

-----------------------------------------------------------------------------
(* searchTextInFiles: the probe, the engine and the fallback walker *)

SearchRoots == {"/ws", "/ws/sub", "/ws/ln", "/etc", "/ws/a", "/ws/nope"}

SearchAllowLists == { <<"/ws">>, <<"/ws", "/etc">>, <<>> }

ResultLimits == {1, 1000}

\* the excludeDirs searchTextInFiles hands to searchCodeFallback
FallbackExcludeDirs == {"node_modules", ".git", "dist"}

SearchInit ==
    /\ platform = "linux"
    /\ allowedDirectories \in SearchAllowLists
    /\ disk = DiskOf(SearchNodes)
    /\ call = NoCall
    /\ admitted = {}
    /\ touched = {}
    /\ diskAtStart = disk
    /\ ncalls = 0
    /\ SearchIdle

\* a caller invokes searchTextInFiles(options)
SearchTextInFilesStart ==
    /\ sc = NoSearch
    /\ nsearch < MaxSearches
    /\ \E root \in SearchRoots, m \in ResultLimits, c \in {0, 1} :
          sc' = [NoSearch EXCEPT !.op = "searchTextInFiles", !.pc = "check",
                                 !.rootPath = root, !.pattern = "foo",
                                 !.maxResults = m, !.contextLines = c]
    /\ nsearch' = nsearch + 1
    /\ UNCHANGED <<gateVars, readVars, probeVars, ripgrepAvailable, probe, rg, stack, results,
                   slog, timers>>

\* an answer of the probe that reaches the caller of searchTextInFiles as
\* an error when it is no
AfterProbeUncaught(value) ==
    IF sc.pc = "probing"
    THEN IF value THEN [sc EXCEPT !.pc = "sc_validate"]
         ELSE [sc EXCEPT !.pc = "done",
                         !.error = "ripgrep not available, using fallback"]
    ELSE sc

\* the promise of checkRipgrepAvailability resolves with value: searchCode
\* goes on to validate the root, or throws into the catch of
\* searchTextInFiles
AfterProbe(value) ==
    IF sc.pc = "probing"
    THEN [sc EXCEPT !.pc = IF value THEN "sc_validate" ELSE "fb_validate"]
    ELSE sc

\* checkRipgrepAvailability up to its first await
CheckRipgrepAvailability ==
    /\ sc.pc = "check"
    /\ IF ripgrepAvailable # "null"
       THEN /\ sc' = [sc EXCEPT !.pc = IF ripgrepAvailable = "true"
                                       THEN "sc_validate" ELSE "fb_validate"]
            /\ UNCHANGED <<ripgrepAvailable, probe, slog>>
       ELSE \E thrown \in BOOLEAN :
              IF thrown
              THEN /\ ripgrepAvailable' = "false"
                   /\ sc' = [sc EXCEPT !.pc = "fb_validate"]
                   /\ slog' = Failed(slog, "probe spawn")
                   /\ UNCHANGED probe
              ELSE /\ probe' = [proc |-> "running", timer |-> TRUE,
                                spawns |-> probe.spawns + 1]
                   /\ sc' = [sc EXCEPT !.pc = "probing"]
                   /\ UNCHANGED <<ripgrepAvailable, slog>>
    /\ UNCHANGED <<gateVars, readVars, probeVars, rg, stack, results, timers, nsearch>>

\* the exit codes a probe in state proc can close with: -1 stands for the
\* null code of a signalled process, -2 for a failed spawn
ProbeCodes(proc) ==
    CASE proc = "running" -> {0, 1}
      [] proc = "killed"  -> {-1}
      [] proc = "errored" -> {-2}
      [] OTHER            -> {}

\* testProcess.on('close')
ProbeClose ==
    /\ \E code \in ProbeCodes(probe.proc) :
          /\ ripgrepAvailable' = IF code = 0 THEN "true" ELSE "false"
          /\ sc' = AfterProbe(code = 0)
          /\ slog' = ProbeAnswered(slog, sc, code = 0, "probe exit")
    /\ probe' = [probe EXCEPT !.proc = "exited"]
    /\ UNCHANGED <<gateVars, readVars, probeVars, rg, stack, results, timers, nsearch>>

\* testProcess.on('error')
ProbeError ==
    /\ probe.proc = "running"
    /\ probe' = [probe EXCEPT !.proc = "errored"]
    /\ ripgrepAvailable' = "false"
    /\ sc' = AfterProbe(FALSE)
    /\ slog' = ProbeAnswered(slog, sc, FALSE, "probe error")
    /\ UNCHANGED <<gateVars, readVars, probeVars, rg, stack, results, timers, nsearch>>

\* the 2 s timer of the probe, which nothing clears
ProbeTimeout ==
    /\ probe.timer
    /\ probe' = [probe EXCEPT !.timer = FALSE,
                              !.proc = IF @ = "running" THEN "killed" ELSE @]
    /\ ripgrepAvailable' = "false"
    /\ sc' = AfterProbe(FALSE)
    /\ slog' = ProbeAnswered(slog, sc, FALSE, "probe timeout")
    /\ UNCHANGED <<gateVars, readVars, probeVars, rg, stack, results, timers, nsearch>>

\* searchCode from the availability answer to the spawn of the engine:
\* validatePath(rootPath), the arguments, spawn and the 30 s timer. A
\* rejection lands in the catch of searchTextInFiles
SearchCodeSpawn ==
    /\ sc.pc = "sc_validate"
    /\ \E late \in LateChoices, spawnThrows \in BOOLEAN :
       \E r \in {validatePath(disk, sc.rootPath, late)} :
          IF ~r.ok
          THEN /\ sc' = [sc EXCEPT !.pc = "fb_validate"]
               /\ slog' = Captured(Timed(slog, late), r)
               /\ UNCHANGED rg
          ELSE IF spawnThrows
               THEN /\ sc' = [sc EXCEPT !.pc = "fb_validate"]
                    /\ slog' = [Failed(Timed(slog, late), "engine spawn")
                                   EXCEPT !.validated = @ \cup {sc.rootPath}]
                    /\ UNCHANGED rg
               ELSE /\ sc' = [sc EXCEPT !.pc = "engine", !.validPath = r.path]
                    /\ rg' = [NoEngine EXCEPT !.proc = "running",
                                              !.timeoutId = TRUE]
                    /\ slog' = [Timed(slog, late) EXCEPT
                                  !.validated = @ \cup {sc.rootPath},
                                  !.spawnedOn = @ \cup {r.path}]
    /\ UNCHANGED <<gateVars, readVars, probeVars, ripgrepAvailable, probe, stack, results, timers,
                   nsearch>>

\* rg.stdout.on('data'): the next output record reaches the buffer
EngineData ==
    /\ rg.proc = "running"
    /\ LET out == EngineOutput(disk, sc.validPath, sc) IN
          /\ Len(rg.stdoutBuffer) < Len(out)
          /\ rg' = [rg EXCEPT !.stdoutBuffer =
                                 Append(@, out[Len(rg.stdoutBuffer) + 1])]
    /\ UNCHANGED <<gateVars, readVars, probeVars, ripgrepAvailable, probe, sc, stack, results,
                   slog, timers, nsearch>>

\* rg.on('error'): the timer is cleared and the promise rejected; what the
\* closure had buffered is dropped with it
EngineError ==
    /\ rg.proc = "running"
    /\ rg' = [rg EXCEPT !.proc = "errored", !.timeoutId = FALSE,
                        !.settled = TRUE, !.stdoutBuffer = <<>>,
                        !.atDeadline = <<>>]
    /\ sc' = IF rg.settled THEN sc ELSE [sc EXCEPT !.pc = "fb_validate"]
    /\ slog' = IF rg.settled THEN slog ELSE Failed(slog, "engine error")
    /\ UNCHANGED <<gateVars, readVars, probeVars, ripgrepAvailable, probe, stack, results,
                   timers, nsearch>>

\* the exit codes the engine can close with: 0 after output with a match,
\* 1 after output without one, 2 on an error of its own at any time, -1 when
\* signalled
EngineCodes ==
    LET out == EngineOutput(disk, sc.validPath, sc) IN
    CASE rg.proc = "running" ->
             {2} \cup (IF Len(rg.stdoutBuffer) = Len(out)
                       THEN {IF \E k \in 1..Len(out) : out[k].type = "match"
                             THEN 0 ELSE 1}
                       ELSE {})
      [] rg.proc = "killed"  -> {-1}
      [] OTHER               -> {}

\* rg.on('close')
EngineClose ==
    /\ \E code \in EngineCodes :
          /\ slog' = IF ~rg.settled /\ ~rg.hasTimedOut /\ code \notin {0, 1}
                     THEN Failed(slog, "engine exit") ELSE slog
          /\ IF rg.settled
             THEN UNCHANGED <<sc, results>>
             ELSE IF rg.hasTimedOut
                  THEN /\ results' = <<>>
                       /\ sc' = [sc EXCEPT !.pc = "done", !.served = "engine",
                                           !.returned = <<>>]
                  ELSE IF code = 0 \/ code = 1
                       THEN LET parsed == ParseRecords(<<>>, rg.stdoutBuffer,
                                                       sc.contextLines)
                            IN /\ results' = parsed
                               /\ sc' = [sc EXCEPT !.pc = "done",
                                                   !.served = "engine",
                                                   !.returned = parsed]
                       ELSE /\ sc' = [sc EXCEPT !.pc = "fb_validate"]
                            /\ UNCHANGED results
    /\ rg' = [rg EXCEPT !.proc = "exited", !.timeoutId = FALSE,
                        !.settled = TRUE, !.stdoutBuffer = <<>>,
                        !.atDeadline = IF rg.hasTimedOut /\ ~rg.settled
                                       THEN @ ELSE <<>>]
    /\ UNCHANGED <<gateVars, readVars, probeVars, ripgrepAvailable, probe, stack, timers,
                   nsearch>>

\* the 30 s timer: hasTimedOut, SIGTERM, and the 1 s timer for SIGKILL;
\* stubborn is whether the process lives on after SIGTERM
EngineTimeout ==
    /\ rg.timeoutId
    /\ \E stubborn \in BOOLEAN :
          rg' = [rg EXCEPT !.timeoutId = FALSE, !.hasTimedOut = TRUE,
                           !.atDeadline = rg.stdoutBuffer,
                           !.killed = (rg.proc = "running"),
                           !.stubborn = stubborn,
                           !.proc = IF @ = "running" /\ ~stubborn
                                    THEN "killed" ELSE @,
                           !.killTimer = TRUE]
    /\ UNCHANGED <<gateVars, readVars, probeVars, ripgrepAvailable, probe, sc, stack, results,
                   slog, timers, nsearch>>

\* the 1 s timer: SIGKILL unless childProcess.killed
EngineKillTimer ==
    /\ rg.killTimer
    /\ rg' = IF ~rg.killed /\ rg.proc = "running"
             THEN [rg EXCEPT !.killTimer = FALSE, !.sigkill = TRUE,
                             !.proc = "killed"]
             ELSE [rg EXCEPT !.killTimer = FALSE]
    /\ UNCHANGED <<gateVars, readVars, probeVars, ripgrepAvailable, probe, sc, stack, results,
                   slog, timers, nsearch>>

\* a frame of searchDir: the directory and the names of its listing still
\* to be looked at
DirFrame(path, names) == [path |-> path, names |-> names]

\* searchDir(dirPath) up to its loop, on the stack stk with the results res:
\* nothing once maxResults is reached, nothing when readdir throws
SearchDirEnter(stk, res, dirPath) ==
    IF Len(res) >= sc.maxResults THEN stk
    ELSE IF CanReaddir(disk, dirPath)
         THEN Append(stk, DirFrame(dirPath, Entries(disk, dirPath)))
         ELSE stk

\* whether searchDir(dirPath) gets as far as calling readdir
SearchDirLists(res) == Len(res) < sc.maxResults

\* the promise of searchCodeFallback resolves once searchDir(validPath)
\* has returned
FallbackSettle(call0, stk, res) ==
    IF stk = <<>>
    THEN [call0 EXCEPT !.pc = "done", !.returned = res]
    ELSE [call0 EXCEPT !.pc = "fb_walk"]

\* searchCodeFallback taking its root as given, without validatePath
FallbackRootUnvalidated(late) == Allowed(toAbsolutePath(sc.rootPath))

\* const validPath = await validatePath(rootPath) of searchCodeFallback
FallbackRoot(late) == validatePath(disk, sc.rootPath, late)

\* the catch of searchTextInFiles: searchCodeFallback from validatePath
\* (rootPath) to the first listing
SearchCodeFallbackStart ==
    /\ sc.pc = "fb_validate"
    /\ \E late \in LateChoices :
       \E r \in {FallbackRoot(late)} :
          IF ~r.ok
          THEN /\ sc' = [sc EXCEPT !.pc = "done", !.error = r.error]
               /\ slog' = Captured(Timed(slog, late), r)
               /\ UNCHANGED <<stack, results>>
          ELSE \E stk \in {SearchDirEnter(<<>>, <<>>, r.path)} :
               /\ stack' = stk
               /\ results' = <<>>
               /\ sc' = FallbackSettle([sc EXCEPT !.validPath = r.path,
                                                  !.served = "fallback"],
                                       stk, <<>>)
               /\ slog' = [Timed(slog, late) EXCEPT !.validated = @ \cup {sc.rootPath},
                                       !.readdirs = @ \cup {r.path}]
    /\ UNCHANGED <<gateVars, readVars, probeVars, ripgrepAvailable, probe, rg, timers, nsearch>>

\* one turn of the loop of searchDir over the entries of the innermost
\* directory, or its return when the loop is over
SearchDirStep ==
    /\ sc.pc = "fb_walk"
    /\ LET top == stack[Len(stack)]
           below == SubSeq(stack, 1, Len(stack) - 1)
       IN IF top.names = <<>> \/ Len(results) >= sc.maxResults
          THEN /\ stack' = below
               /\ sc' = FallbackSettle(sc, below, results)
               /\ UNCHANGED <<results, slog>>
          ELSE LET name == Head(top.names)
                   fullPath == PathJoin(top.path, name)
                   rest == Append(below, DirFrame(top.path, Tail(top.names)))
               IN \E late \in LateChoices :
                  \E r \in {validatePath(disk, fullPath, late)} :
                    IF ~r.ok
                    THEN /\ stack' = rest
                         /\ slog' = [Captured(Timed(slog, late), r) EXCEPT
                                        !.seen = @ \cup {fullPath}]
                         /\ UNCHANGED <<sc, results>>
                    ELSE IF IsDirectory(disk, fullPath)
                              /\ name \notin FallbackExcludeDirs
                         THEN /\ stack' = SearchDirEnter(rest, results, fullPath)
                              /\ slog' = [Timed(slog, late) EXCEPT
                                   !.seen = @ \cup {fullPath},
                                   !.validated = @ \cup {fullPath},
                                   !.readdirs = IF SearchDirLists(results)
                                                THEN @ \cup {fullPath} ELSE @]
                              /\ UNCHANGED <<sc, results>>
                         ELSE IF IsFile(disk, fullPath)
                              THEN /\ stack' = rest
                                   /\ results' = FallbackScan(results, fullPath,
                                         SplitNewline(FileContent(fullPath)),
                                         1, sc)
                                   /\ slog' = [Timed(slog, late) EXCEPT
                                        !.seen = @ \cup {fullPath},
                                        !.validated = @ \cup {fullPath},
                                        !.reads = @ \cup {fullPath}]
                                   /\ UNCHANGED sc
                              ELSE /\ stack' = rest
                                   /\ slog' = [Timed(slog, late) EXCEPT
                                        !.seen = @ \cup {fullPath},
                                        !.validated = @ \cup {fullPath}]
                                   /\ UNCHANGED <<sc, results>>
    /\ UNCHANGED <<gateVars, readVars, probeVars, ripgrepAvailable, probe, rg, timers, nsearch>>

-----------------------------------------------------------------------------
(* searchFiles: the file name walker of tools/filesystem.ts *)

DepthLimits == {0, 1, 10}

NamePatterns == {"a", "s", ""}

\* the default excludeDirs of searchFiles
DefaultExcludeDirs == {"node_modules", ".git", "dist", ".cache", "tmp"}

\* a frame of search(currentPath, depth): the files and directories of its
\* listing still to go and the await it is suspended at: "readdir", "vfile"
\* or "vdir" (validatePath of the first file or directory to go), "child"
\* (the recursive search of the first directory to go); "files" and "dirs"
\* stand for the heads of the two loops
WalkFrame(path, depth, files, dirs, await) ==
    [path |-> path, depth |-> depth, files |-> files, dirs |-> dirs,
     await |-> await]

\* the walker between two awaits: its stack and its searchCancelled
Walk(stk, cancelled) == [stack |-> stk, cancelled |-> cancelled]

SetTop(stk, f) == Append(SubSeq(stk, 1, Len(stk) - 1), f)

\* the caller of a search that has returned goes on with its next directory
ResumeParent(stk) ==
    IF stk = <<>> THEN stk
    ELSE LET top == stk[Len(stk)] IN
         SetTop(stk, [top EXCEPT !.dirs = Tail(@), !.await = "dirs"])

RECURSIVE SearchRun(_, _)
\* search() from the head of one of its loops to its next await, through
\* the returns of finished frames; res is the results array
SearchRun(w, res) ==
    IF w.stack = <<>> THEN w
    ELSE LET top == w.stack[Len(w.stack)]
             below == SubSeq(w.stack, 1, Len(w.stack) - 1)
         IN IF top.await = "files"
            THEN IF top.files = <<>> \/ w.cancelled
                       \/ Len(res) >= sc.maxResults
                 THEN SearchRun(Walk(SetTop(w.stack,
                                       [top EXCEPT !.await = "dirs"]),
                                     w.cancelled), res)
                 ELSE Walk(SetTop(w.stack, [top EXCEPT !.await = "vfile"]),
                           w.cancelled)
            ELSE IF top.dirs = <<>> \/ w.cancelled
                       \/ Len(res) >= sc.maxResults
                       \/ top.depth >= sc.maxDepth
                 THEN SearchRun(Walk(ResumeParent(below), w.cancelled), res)
                 ELSE IF Head(top.dirs) \in DefaultExcludeDirs
                      THEN SearchRun(Walk(SetTop(w.stack,
                                            [top EXCEPT !.dirs = Tail(@)]),
                                          w.cancelled), res)
                      ELSE Walk(SetTop(w.stack,
                                       [top EXCEPT !.await = "vdir"]),
                                w.cancelled)

\* a call of search(currentPath, depth) up to its readdir, and the run of
\* its caller when it returns at once
SearchEnter(w, res, currentPath, depth) ==
    IF w.cancelled \/ Len(res) >= sc.maxResults \/ depth > sc.maxDepth
    THEN SearchRun(Walk(ResumeParent(w.stack), w.cancelled), res)
    ELSE IF sc.expired
         THEN SearchRun(Walk(ResumeParent(w.stack), TRUE), res)
         ELSE Walk(Append(w.stack,
                          WalkFrame(currentPath, depth, <<>>, <<>>, "readdir")),
                   w.cancelled)

\* what the walk w means for the call: searchCancelled, and the return of
\* results when search(validPath) has resolved before the timer rejected
SearchSettle(call0, w, res) ==
    LET c == [call0 EXCEPT !.searchCancelled = w.cancelled] IN
    IF w.stack = <<>> /\ c.pc = "sf_walk"
    THEN [c EXCEPT !.pc = "done", !.returned = res]
    ELSE c

\* the name test of searchFiles
NameMatches(name) ==
    IF Win32 THEN Includes(ToLowerCase(name), ToLowerCase(sc.pattern))
    ELSE Includes(name, sc.pattern)

\* a caller invokes searchFiles(rootPath, pattern, options): the timer is
\* set before anything else
SearchFilesStart ==
    /\ sc = NoSearch
    /\ nsearch < MaxSearches
    /\ \E root \in SearchRoots, pat \in NamePatterns, m \in {1, 1000},
          dep \in DepthLimits :
          sc' = [NoSearch EXCEPT !.op = "searchFiles", !.pc = "sf_validate",
                                 !.rootPath = root, !.pattern = pat,
                                 !.maxResults = m, !.maxDepth = dep,
                                 !.timer = "pending"]
    /\ nsearch' = nsearch + 1
    /\ UNCHANGED <<gateVars, readVars, probeVars, ripgrepAvailable, probe, rg, stack, results,
                   slog, timers>>

\* validatePath(rootPath) has settled: the denial is rethrown, or the race
\* between search(validPath) and the timer begins
SearchFilesValidate ==
    /\ sc.pc = "sf_validate"
    /\ \E late \in LateChoices :
       \E r \in {validatePath(disk, sc.rootPath, late)} :
          IF ~r.ok
          THEN /\ sc' = [sc EXCEPT !.pc = "done", !.error = r.error]
               /\ slog' = Captured(Timed(slog, late), r)
               /\ UNCHANGED stack
          ELSE \E w \in {SearchEnter(Walk(<<>>, sc.searchCancelled), <<>>,
                                     r.path, 0)} :
                  /\ stack' = w.stack
                  /\ sc' = SearchSettle([sc EXCEPT !.pc = "sf_walk",
                                                   !.validPath = r.path,
                                                   !.raced = TRUE], w, <<>>)
                  /\ slog' = [Timed(slog, late) EXCEPT
                                !.validated = @ \cup {sc.rootPath},
                                !.readdirs = IF w.stack # <<>>
                                             THEN @ \cup {r.path} ELSE @]
    /\ UNCHANGED <<gateVars, readVars, probeVars, ripgrepAvailable, probe, rg, results, timers,
                   nsearch>>

\* the log after the entry at path was looked at: whether validatePath
\* admitted it and whether it was then listed
Logged(log, path, ok, listed) ==
    [log EXCEPT !.seen = @ \cup {path},
                !.validated = IF ok THEN @ \cup {path} ELSE @,
                !.readdirs = IF listed THEN @ \cup {path} ELSE @]

\* the walker of searchFiles is suspended in its innermost frame at await a;
\* it runs on after its caller has settled
Suspended(a) ==
    /\ sc.op = "searchFiles"
    /\ stack # <<>>
    /\ stack[Len(stack)].await = a

\* fs.readdir(currentPath) has settled
SearchReaddirDone ==
    /\ Suspended("readdir")
    /\ LET top == stack[Len(stack)]
           below == SubSeq(stack, 1, Len(stack) - 1)
           names == Entries(disk, top.path)
           listed == [top EXCEPT
                        !.files = SelectSeq(names,
                            LAMBDA n : IsFile(disk, Child(top.path, n))),
                        !.dirs = SelectSeq(names,
                            LAMBDA n : IsDirectory(disk, Child(top.path, n))),
                        !.await = "files"]
           w == IF CanReaddir(disk, top.path)
                THEN SearchRun(Walk(SetTop(stack, listed), sc.searchCancelled),
                               results)
                ELSE SearchRun(Walk(ResumeParent(below), sc.searchCancelled),
                               results)
       IN /\ stack' = w.stack
          /\ sc' = SearchSettle(sc, w, results)
    /\ UNCHANGED <<gateVars, readVars, probeVars, ripgrepAvailable, probe, rg, results, slog,
                   timers, nsearch>>

\* SearchFileValidated pushing the file whatever validatePath answered
SearchFileValidatedUnchecked ==
    /\ Suspended("vfile")
    /\ LET top == stack[Len(stack)]
           name == Head(top.files)
           fullPath == PathJoin(top.path, name)
           next == SetTop(stack, [top EXCEPT !.files = Tail(@),
                                             !.await = "files"])
       IN \E late \in LateChoices :
          \E r \in {validatePath(disk, fullPath, late)} :
          \E res \in {IF NameMatches(name)
                      THEN Append(results, fullPath) ELSE results} :
          \E w \in {SearchRun(Walk(next, sc.searchCancelled), res)} :
               /\ results' = res
               /\ stack' = w.stack
               /\ sc' = SearchSettle(sc, w, res)
               /\ slog' = Logged(Captured(Timed(slog, late), r), fullPath, r.ok, FALSE)
    /\ UNCHANGED <<gateVars, readVars, probeVars, ripgrepAvailable, probe, rg, timers, nsearch>>

\* validatePath(fullPath) of a file has settled
SearchFileValidated ==
    /\ Suspended("vfile")
    /\ LET top == stack[Len(stack)]
           name == Head(top.files)
           fullPath == PathJoin(top.path, name)
           next == SetTop(stack, [top EXCEPT !.files = Tail(@),
                                             !.await = "files"])
       IN \E late \in LateChoices :
          \E r \in {validatePath(disk, fullPath, late)} :
          \E res \in {IF r.ok /\ NameMatches(name)
                      THEN Append(results, fullPath) ELSE results} :
          \E w \in {SearchRun(Walk(next, sc.searchCancelled), res)} :
               /\ results' = res
               /\ stack' = w.stack
               /\ sc' = SearchSettle(sc, w, res)
               /\ slog' = Logged(Captured(Timed(slog, late), r), fullPath, r.ok, FALSE)
    /\ UNCHANGED <<gateVars, readVars, probeVars, ripgrepAvailable, probe, rg, timers, nsearch>>

\* validatePath(fullPath) of a directory has settled
SearchDirValidated ==
    /\ Suspended("vdir")
    /\ LET top == stack[Len(stack)]
           name == Head(top.dirs)
           fullPath == PathJoin(top.path, name)
           skipped == SetTop(stack, [top EXCEPT !.dirs = Tail(@),
                                                !.await = "dirs"])
           calling == SetTop(stack, [top EXCEPT !.await = "child"])
       IN \E late \in LateChoices :
          \E r \in {validatePath(disk, fullPath, late)} :
          \E res \in {IF r.ok /\ NameMatches(name)
                      THEN Append(results, fullPath) ELSE results} :
          \E w \in {IF r.ok
                    THEN SearchEnter(Walk(calling, sc.searchCancelled), res,
                                     fullPath, top.depth + 1)
                    ELSE SearchRun(Walk(skipped, sc.searchCancelled), res)} :
               /\ results' = res
               /\ stack' = w.stack
               /\ sc' = SearchSettle(sc, w, res)
               /\ slog' = Logged(Captured(Timed(slog, late), r), fullPath, r.ok,
                                 r.ok /\ Len(w.stack) > Len(stack))
    /\ UNCHANGED <<gateVars, readVars, probeVars, ripgrepAvailable, probe, rg, timers, nsearch>>

\* the clock passes startTime + timeoutMs
ClockPasses ==
    /\ sc.op = "searchFiles"
    /\ ~sc.expired
    /\ sc' = [sc EXCEPT !.expired = TRUE]
    /\ UNCHANGED <<gateVars, readVars, probeVars, ripgrepAvailable, probe, rg, stack, results,
                   slog, timers, nsearch>>

\* the timer of searchFiles fires: searchCancelled, and the rejection of
\* timeoutPromise, which the catch of searchFiles sees only while the race
\* is on
SearchFilesTimeout ==
    /\ sc.timer = "pending"
    /\ sc.expired
    /\ LET c == [sc EXCEPT !.timer = "fired", !.searchCancelled = TRUE] IN
          IF sc.pc = "sf_walk"
          THEN /\ sc' = IF Len(results) > 0
                        THEN [c EXCEPT !.pc = "done", !.returned = results]
                        ELSE [c EXCEPT !.pc = "done",
                                       !.error = "Search operation timed out"]
               /\ UNCHANGED timers
          ELSE /\ sc' = c
               /\ timers' = IF sc.raced THEN timers
                            ELSE [timers EXCEPT !.unhandled = @ + 1]
    /\ UNCHANGED <<gateVars, readVars, probeVars, ripgrepAvailable, probe, rg, stack, results,
                   slog, nsearch>>

\* the caller has its answer and the closures of the call are dropped; a
\* timer still pending stays behind
SearchReturn ==
    /\ sc.pc = "done"
    /\ sc' = NoSearch
    /\ stack' = <<>>
    /\ rg' = NoEngine
    /\ results' = <<>>
    /\ slog' = NoLog
    /\ timers' = IF sc.timer # "pending" THEN timers
                 ELSE IF sc.raced THEN [timers EXCEPT !.raced = @ + 1]
                      ELSE [timers EXCEPT !.unraced = @ + 1]
    /\ UNCHANGED <<gateVars, readVars, probeVars, ripgrepAvailable, probe, nsearch>>

\* the timer of a searchFiles call that settled earlier fires
StaleTimerFires ==
    /\ \E raced \in BOOLEAN :
          IF raced
          THEN /\ timers.raced > 0
               /\ timers' = [timers EXCEPT !.raced = @ - 1]
          ELSE /\ timers.unraced > 0
               /\ timers' = [timers EXCEPT !.unraced = @ - 1,
                                           !.unhandled = @ + 1]
    /\ UNCHANGED <<gateVars, readVars, probeVars, ripgrepAvailable, probe, rg, sc, stack, results,
                   slog, nsearch>>

SearchNext ==
    \/ SearchTextInFilesStart
    \/ CheckRipgrepAvailability
    \/ ProbeClose
    \/ ProbeError
    \/ ProbeTimeout
    \/ SearchCodeSpawn
    \/ EngineData
    \/ EngineError
    \/ EngineClose
    \/ EngineTimeout
    \/ EngineKillTimer
    \/ SearchCodeFallbackStart
    \/ SearchDirStep
    \/ SearchFilesStart
    \/ SearchFilesValidate
    \/ SearchReaddirDone
    \/ SearchFileValidated
    \/ SearchDirValidated
    \/ ClockPasses
    \/ SearchFilesTimeout
    \/ SearchReturn
    \/ StaleTimerFires

SpecSearch == SearchInit /\ [][SearchNext]_vars

-----------------------------------------------------------------------------
(* Claims about the searches *)

\* the policy denies the root of the search in flight
RootDenied == ~validationOperation(disk, sc.rootPath).ok

\* C7: a searchTextInFiles call on a root that admission denies never
\* spawns the engine on it, never lists or reads anything, never has a
\* result, and ends in an error: the denial error, unless a validation of
\* the call ran into its timeout
C7_DeniedRootTouchesNothing ==
    (sc.op = "searchTextInFiles" /\ RootDenied) =>
        /\ slog.spawnedOn = {}
        /\ slog.readdirs = {}
        /\ slog.reads = {}
        /\ results = <<>>
        /\ stack = <<>>
        /\ sc.pc = "done" => /\ sc.error # ""
                             /\ slog.timeouts = 0 => sc.error = Denied.error

\* a call on a denied root has failed with the denial error although the
\* engine is available
C7_Witness ==
    /\ sc.op = "searchTextInFiles"
    /\ RootDenied
    /\ sc.pc = "done"
    /\ sc.error = Denied.error
    /\ ripgrepAvailable = "true"

\* a walker, not the engine, serves the search in flight
WalkerServes == sc.op = "searchFiles" \/ sc.served = "fallback"

\* the paths of the entries in the results array
ResultFiles ==
    IF sc.op = "searchFiles" THEN Range(results)
    ELSE {results[i].file : i \in 1..Len(results)}

\* the directories listed so far that are entries, not the root
ListedEntries == slog.readdirs \ {sc.validPath}

\* the walk is over and nothing cut it short: no error, no cancellation,
\* maxResults not reached, no depth limit in reach
WalkedToTheEnd ==
    /\ WalkerServes
    /\ sc.pc = "done"
    /\ stack = <<>>
    /\ sc.error = ""
    /\ ~sc.searchCancelled
    /\ Len(results) < sc.maxResults
    /\ sc.op = "searchFiles" => sc.maxDepth = 10

\* the entries of directory d a completed walk must have looked at: all of
\* them, but for the directories searchFiles excludes before validating
Due(d) ==
    {Child(d, Entries(disk, d)[i]) : i \in
        {k \in 1..Len(Entries(disk, d)) :
            LET n == Entries(disk, d)[k] IN
            \/ sc.op # "searchFiles"
            \/ IsFile(disk, Child(d, n))
            \/ (IsDirectory(disk, Child(d, n)) /\ n \notin DefaultExcludeDirs)}}

\* C8: in both walkers whatever is returned, read or listed was admitted by
\* validatePath before, what validatePath admitted the policy admits, an
\* entry that is denied makes no call fail, and a walk that nothing cut
\* short has looked at every entry of every directory it listed, the
\* siblings after a denied entry included
C8_WalkersValidateEveryEntry ==
    WalkerServes =>
        /\ ResultFiles \subseteq slog.validated
        /\ slog.reads \subseteq slog.validated
        /\ ListedEntries \subseteq slog.validated
        /\ \A p \in slog.validated : validationOperation(disk, p).ok
        /\ (sc.error # "" /\ slog.readdirs # {}) => sc.timer = "fired"
        /\ WalkedToTheEnd =>
              \A d \in slog.readdirs :
                  CanReaddir(disk, d) => Due(d) \subseteq slog.seen

\* the fallback walker has skipped the denied entry /ws/a..b and gone on to
\* read, in a directory listed after it, a file that it returns
C8_Witness ==
    /\ sc.served = "fallback"
    /\ sc.pc = "done"
    /\ "/ws/a..b" \in slog.seen \ slog.validated
    /\ "/ws/sub/c" \in slog.reads
    /\ "/ws/sub/c" \in ResultFiles

-----------------------------------------------------------------------------
(* The line reader of tools/filesystem.ts: display reads *)

\* the bytes a file is made of: a letter and the two terminator characters
Alphabet == {"a", "\n", "\r"}

RECURSIVE Strings(_)
\* the strings of at most n bytes
Strings(n) ==
    IF n = 0 THEN {""}
    ELSE LET S == Strings(n - 1) IN S \cup {s \o c : s \in S, c \in Alphabet}

RECURSIVE ReadlineAcc(_, _, _)
\* the line events of readline with crlfDelay: Infinity on the input s: a
\* line ends at \n, at \r\n or at a lone \r; what is left at the end of the
\* input is a line only if it is not empty
ReadlineAcc(s, acc, cur) ==
    IF s = "" THEN (IF cur # "" THEN Append(acc, cur) ELSE acc)
    ELSE LET c == SubSeq(s, 1, 1) IN
         IF c = "\n" THEN ReadlineAcc(From(s, 2), Append(acc, cur), "")
         ELSE IF c = "\r"
              THEN IF Len(s) >= 2 /\ SubSeq(s, 2, 2) = "\n"
                   THEN ReadlineAcc(From(s, 3), Append(acc, cur), "")
                   ELSE ReadlineAcc(From(s, 2), Append(acc, cur), "")
              ELSE ReadlineAcc(From(s, 2), acc, cur \o c)

\* createInterface({ input: createReadStream(filePath, { start }) })
Readline(content, start) == ReadlineAcc(From(content, start + 1), <<>>, "")

\* countLines
countLines(content) == Len(SplitNewline(content))

\* the result of getFileLineCount when the file is too large to count
Undefined == -1

\* getFileLineCount
getFileLineCount(content) ==
    IF Len(content) < LINE_COUNT_LIMIT THEN countLines(content) ELSE Undefined

Digit(d) == SubSeq("0123456789", d + 1, d + 1)

RECURSIVE NumberToString(_)
\* Number.prototype.toString of a natural number
NumberToString(n) ==
    IF n < 10 THEN Digit(n)
    ELSE NumberToString(n \div 10) \o Digit(n % 10)

\* generateEnhancedStatusMessage
generateEnhancedStatusMessage(readLines, offset, totalLines, isNegativeOffset) ==
    IF isNegativeOffset
    THEN IF totalLines # Undefined
         THEN "[Reading last " \o NumberToString(readLines) \o " lines (total: "
              \o NumberToString(totalLines) \o " lines)]"
         ELSE "[Reading last " \o NumberToString(readLines) \o " lines]"
    ELSE IF totalLines # Undefined
         THEN LET remainingLines == Max(0, totalLines - (offset + readLines)) IN
              IF offset = 0
              THEN "[Reading " \o NumberToString(readLines)
                   \o " lines from start (total: " \o NumberToString(totalLines)
                   \o " lines, " \o NumberToString(remainingLines) \o " remaining)]"
              ELSE "[Reading " \o NumberToString(readLines) \o " lines from line "
                   \o NumberToString(offset) \o " (total: " \o NumberToString(totalLines)
                   \o " lines, " \o NumberToString(remainingLines) \o " remaining)]"
         ELSE IF offset = 0
              THEN "[Reading " \o NumberToString(readLines) \o " lines from start]"
              ELSE "[Reading " \o NumberToString(readLines) \o " lines from line "
                   \o NumberToString(offset) \o "]"

RECURSIVE JoinNewline(_)
\* result.join('\n')
JoinNewline(lines) ==
    IF lines = <<>> THEN ""
    ELSE IF Len(lines) = 1 THEN lines[1]
         ELSE lines[1] \o "\n" \o JoinNewline(Tail(lines))

\* a selection that takes a file of exactly the threshold for a large one
\* in tail reads
StrategyAtThreshold(fileSize, offset) ==
    IF offset < 0
    THEN IF fileSize >= LARGE_FILE_THRESHOLD /\ -offset <= SMALL_READ_THRESHOLD
         THEN "reverse" ELSE "circular"
    ELSE IF fileSize < LARGE_FILE_THRESHOLD \/ offset = 0 THEN "forward"
         ELSE IF offset > DEEP_OFFSET_THRESHOLD THEN "sample" ELSE "forward"

\* the strategy readFileWithSmartPositioning picks
Strategy(fileSize, offset) ==
    IF offset < 0
    THEN IF fileSize > LARGE_FILE_THRESHOLD /\ -offset <= SMALL_READ_THRESHOLD
         THEN "reverse" ELSE "circular"
    ELSE IF fileSize < LARGE_FILE_THRESHOLD \/ offset = 0 THEN "forward"
         ELSE IF offset > DEEP_OFFSET_THRESHOLD THEN "sample" ELSE "forward"

\* array.slice(-n) for n >= 1
SliceLast(seq, n) == SubSeq(seq, Max(1, Len(seq) - n + 1), Len(seq))

\* a slot of new Array(requestedLines) that was never written
Hole == <<>>

\* the lines held by slots, the holes left out
Defined(slots) ==
    LET kept == SelectSeq(slots, LAMBDA x : x # Hole)
    IN [i \in 1..Len(kept) |-> kept[i][1]]

\* the handle the reader picked opens first: the descriptor of fs.open, or
\* the stream of createReadStream ("sample" for the stream of the sample of
\* readFromEstimatedPosition)
Opened(strategy) ==
    CASE strategy = "reverse" -> "fd"
      [] strategy = "sample"  -> "sample"
      [] OTHER                -> "stream"

\* a read in flight: the arguments, what readFileWithSmartPositioning
\* found out about the file, and the locals of the reader it picked
NewRead(content, offset, length) ==
    [pc |-> Strategy(Len(content), offset),
     strategy |-> Strategy(Len(content), offset),
     content |-> content, offset |-> offset, length |-> length,
     totalLines |-> getFileLineCount(content),
     position |-> Len(content), lines |-> <<>>, partialLine |-> "",
     buffer |-> [i \in 1..(IF offset < 0 THEN -offset ELSE 0) |-> Hole],
     bufferIndex |-> 0, count |-> 0, bytesRead |-> 0, startPosition |-> 0,
     firstLineSkipped |-> FALSE,
     pending |-> Readline(content, 0),
     result |-> <<>>, text |-> "",
     open |-> {Opened(Strategy(Len(content), offset))}]

ReadInit ==
    /\ platform = "linux"
    /\ allowedDirectories = <<"/ws">>
    /\ disk = DiskOf(LinuxNodes)
    /\ call = NoCall
    /\ admitted = {}
    /\ touched = {}
    /\ diskAtStart = disk
    /\ ncalls = 0
    /\ SearchIdle

\* readFileWithSmartPositioning(filePath, offset, length, mimeType, true) on
\* a file of the given content, up to the reader it hands over to
ReadFileWithSmartPositioning ==
    /\ rd = NoRead
    /\ \E content \in Strings(MaxLen), offset \in (-MaxOffset)..MaxOffset,
          length \in 0..MaxLength :
          rd' = NewRead(content, offset, length)
    /\ UNCHANGED <<gateVars, searchVars, probeVars>>

\* one turn of the loop of readLastNLinesReverse, or the end of the loop
ReadLastNLinesReverse ==
    /\ rd.pc = "reverse"
    /\ IF rd.position > 0 /\ Len(rd.lines) < -rd.offset
       THEN LET readSize == Min(CHUNK_SIZE, rd.position)
                position == rd.position - readSize
                chunk == SubSeq(rd.content, position + 1, position + readSize)
                chunkLines == SplitNewline(chunk \o rd.partialLine)
            IN rd' = [rd EXCEPT !.position = position,
                                !.partialLine = Head(chunkLines),
                                !.lines = Tail(chunkLines) \o rd.lines]
       ELSE LET lines == IF rd.position = 0 /\ rd.partialLine # ""
                         THEN <<rd.partialLine>> \o rd.lines
                         ELSE rd.lines
            IN rd' = [rd EXCEPT !.pc = "finish",
                                !.result = SliceLast(lines, -rd.offset)]
    /\ UNCHANGED <<gateVars, searchVars, probeVars>>

\* one line event in readFromEndWithReadline, or the end of the input,
\* where the stream closes itself (autoClose)
ReadFromEndWithReadline ==
    /\ rd.pc = "circular"
    /\ LET requestedLines == -rd.offset IN
       IF rd.pending # <<>>
       THEN rd' = [rd EXCEPT
                     !.buffer[rd.bufferIndex + 1] = <<Head(rd.pending)>>,
                     !.bufferIndex = (rd.bufferIndex + 1) % requestedLines,
                     !.count = @ + 1,
                     !.pending = Tail(@)]
       ELSE rd' = [rd EXCEPT
                     !.pc = "finish",
                     !.open = @ \ {"stream"},
                     !.result =
                        IF rd.count >= requestedLines
                        THEN Defined(SubSeq(rd.buffer, rd.bufferIndex + 1,
                                            requestedLines)
                                     \o SubSeq(rd.buffer, 1, rd.bufferIndex))
                        ELSE Defined(SubSeq(rd.buffer, 1, rd.count))]
    /\ UNCHANGED <<gateVars, searchVars, probeVars>>

\* the body of the loop with a first line that is one too late
ForwardLineOffByOne(r, line) ==
    LET result == IF r.count > r.offset /\ Len(r.result) < r.length
                  THEN Append(r.result, line)
                  ELSE r.result
    IN IF Len(result) >= r.length
       THEN [r EXCEPT !.pc = "finish", !.result = result]
       ELSE [r EXCEPT !.result = result, !.count = @ + 1,
                      !.pending = Tail(@)]

\* the body of the loop of readFromStartWithReadline for one line, count
\* being its lineNumber
ForwardLine(r, line) ==
    LET result == IF r.count >= r.offset /\ Len(r.result) < r.length
                  THEN Append(r.result, line)
                  ELSE r.result
    IN IF Len(result) >= r.length
       THEN [r EXCEPT !.pc = "finish", !.result = result]
       ELSE [r EXCEPT !.result = result, !.count = @ + 1,
                      !.pending = Tail(@)]

\* one line event in readFromStartWithReadline, or the end of the input
ReadFromStartWithReadline ==
    /\ rd.pc = "forward"
    /\ IF rd.pending # <<>>
       THEN rd' = ForwardLine(rd, Head(rd.pending))
       ELSE rd' = [rd EXCEPT !.pc = "finish", !.open = @ \ {"stream"}]
    /\ UNCHANGED <<gateVars, searchVars, probeVars>>

\* readFromEstimatedPosition after its sample: the fallback to the forward
\* reader, or the stream opened at the estimated position
AfterSample(r) ==
    IF r.count = 0
    THEN [r EXCEPT !.pc = "forward", !.pending = Readline(r.content, 0),
                   !.open = @ \cup {"stream"}]
    ELSE LET estimatedBytePosition == (r.offset * r.bytesRead) \div r.count
             startPosition == Min(estimatedBytePosition, Len(r.content))
         IN [r EXCEPT !.pc = "estimated", !.startPosition = startPosition,
                      !.count = 0,
                      !.pending = Readline(r.content, startPosition),
                      !.open = @ \cup {"fd", "stream"}]

\* one line event of the sample of readFromEstimatedPosition, or its end
ReadFromEstimatedPositionSample ==
    /\ rd.pc = "sample"
    /\ IF rd.pending # <<>>
       THEN LET r == [rd EXCEPT
                        !.bytesRead = @ + Len(Head(rd.pending)) + 1,
                        !.count = @ + 1,
                        !.pending = Tail(@)]
            IN rd' = IF r.bytesRead >= SAMPLE_SIZE THEN AfterSample(r) ELSE r
       ELSE rd' = AfterSample([rd EXCEPT !.open = @ \ {"sample"}])
    /\ UNCHANGED <<gateVars, searchVars, probeVars>>

\* one line event of the second stream of readFromEstimatedPosition, or
\* its end
ReadFromEstimatedPosition ==
    /\ rd.pc = "estimated"
    /\ IF rd.pending # <<>>
       THEN IF ~rd.firstLineSkipped /\ rd.startPosition > 0
            THEN rd' = [rd EXCEPT !.firstLineSkipped = TRUE,
                                  !.pending = Tail(@)]
            ELSE IF Len(rd.result) < rd.length
                 THEN rd' = [rd EXCEPT
                               !.result = Append(@, Head(rd.pending)),
                               !.count = @ + 1,
                               !.pending = Tail(@)]
                 ELSE rd' = [rd EXCEPT !.pc = "finish"]
       ELSE rd' = [rd EXCEPT !.pc = "finish", !.open = @ \ {"stream"}]
    /\ UNCHANGED <<gateVars, searchVars, probeVars>>

\* the FileResult of the reader: the status line, an empty line and the
\* lines joined; the finally of a reader that has a descriptor closes it
ReadFinish ==
    /\ rd.pc = "finish"
    /\ rd' = [rd EXCEPT
                !.pc = "done",
                !.open = @ \ {"fd"},
                !.text = generateEnhancedStatusMessage(Len(rd.result),
                             rd.offset, rd.totalLines, rd.offset < 0)
                         \o "\n\n" \o JoinNewline(rd.result)]
    /\ UNCHANGED <<gateVars, searchVars, probeVars>>

\* the read that a reader is awaiting throws: a stream that fails destroys
\* itself (autoClose), the finally closes the descriptor, and
\* readFileWithSmartPositioning rejects
ReadFails ==
    /\ rd.pc \in {"reverse", "circular", "forward", "sample", "estimated"}
    /\ rd' = [pc |-> "failed", strategy |-> rd.strategy,
              content |-> rd.content,
              open |-> rd.open \ {Opened(rd.pc), "stream", "fd"}]
    /\ UNCHANGED <<gateVars, searchVars, probeVars>>

\* the char code of a byte of Alphabet
Code(c) == CASE c = "a" -> 97 [] c = "\n" -> 10 [] c = "\r" -> 13

\* the digits of base64
Base64Digits ==
    "ABCDEFGHIJKLMNOPQRSTUVWXYZabcdefghijklmnopqrstuvwxyz0123456789+/"

Base64Digit(n) == SubSeq(Base64Digits, n + 1, n + 1)

RECURSIVE Base64(_)
\* buffer.toString('base64') of the bytes s: three bytes make four digits,
\* and what is left at the end is padded with "="
Base64(s) ==
    IF s = "" THEN ""
    ELSE IF Len(s) = 1
         THEN LET n == Code(SubSeq(s, 1, 1)) * 16 IN
              Base64Digit(n \div 64) \o Base64Digit(n % 64) \o "=="
         ELSE IF Len(s) = 2
              THEN LET n == (Code(SubSeq(s, 1, 1)) * 256
                               + Code(SubSeq(s, 2, 2))) * 4 IN
                   Base64Digit(n \div 4096) \o Base64Digit((n \div 64) % 64)
                       \o Base64Digit(n % 64) \o "="
              ELSE LET n == Code(SubSeq(s, 1, 1)) * 65536
                               + Code(SubSeq(s, 2, 2)) * 256
                               + Code(SubSeq(s, 3, 3)) IN
                   Base64Digit(n \div 262144)
                       \o Base64Digit((n \div 4096) % 64)
                       \o Base64Digit((n \div 64) % 64)
                       \o Base64Digit(n % 64) \o Base64(From(s, 4))

\* a fallback that hands the bytes out as an image
BinaryFallbackAsImage(content) ==
    [content |-> Base64(content), mimeType |-> "text/plain", isImage |-> TRUE]

\* the FileResult of the catch of readOperation for a file of the given
\* bytes
BinaryFallback(content) ==
    [content |-> "Binary file content (base64 encoded):\n" \o Base64(content),
     mimeType |-> "text/plain", isImage |-> FALSE]

\* the catch of readOperation in readFileFromDisk: fs.readFile(validPath)
\* yields the bytes, or throws as the text read did (readable is which)
ReadFileFromDiskCatch ==
    /\ rd.pc = "failed"
    /\ \E readable \in BOOLEAN :
          rd' = IF readable
                THEN [pc |-> "binary", strategy |-> rd.strategy,
                      content |-> rd.content, open |-> rd.open,
                      readable |-> TRUE, result |-> BinaryFallback(rd.content)]
                ELSE [pc |-> "rejected", strategy |-> rd.strategy,
                      content |-> rd.content, open |-> rd.open,
                      readable |-> FALSE, error |-> "fs"]
    /\ UNCHANGED <<gateVars, searchVars, probeVars>>

\* the caller of readFileFromDisk has the FileResult, or the error
ReadReturn ==
    /\ rd.pc \in {"done", "binary", "rejected"}
    /\ rd' = NoRead
    /\ UNCHANGED <<gateVars, searchVars, probeVars>>

RECURSIVE SplitKeepingEndingsCR(_, _, _)
\* a splitter that takes a \r for a whole terminator and leaves the \n
\* after it out
SplitKeepingEndingsCR(content, lines, currentLine) ==
    IF content = ""
    THEN IF currentLine # "" THEN Append(lines, currentLine) ELSE lines
    ELSE LET char == SubSeq(content, 1, 1) IN
         IF char = "\n"
         THEN SplitKeepingEndingsCR(From(content, 2),
                                    Append(lines, currentLine \o char), "")
         ELSE IF char = "\r"
              THEN IF Len(content) >= 2 /\ SubSeq(content, 2, 2) = "\n"
                   THEN SplitKeepingEndingsCR(From(content, 3),
                            Append(lines, currentLine \o "\r"), "")
                   ELSE SplitKeepingEndingsCR(From(content, 2),
                            Append(lines, currentLine \o "\r"), "")
              ELSE SplitKeepingEndingsCR(From(content, 2), lines,
                                         currentLine \o char)

RECURSIVE SplitKeepingEndings(_, _, _)
\* the loop of splitLinesPreservingEndings over what is left of content,
\* and what follows the loop
SplitKeepingEndings(content, lines, currentLine) ==
    IF content = ""
    THEN IF currentLine # "" THEN Append(lines, currentLine) ELSE lines
    ELSE LET char == SubSeq(content, 1, 1) IN
         IF char = "\n"
         THEN SplitKeepingEndings(From(content, 2),
                                  Append(lines, currentLine \o char), "")
         ELSE IF char = "\r"
              THEN IF Len(content) >= 2 /\ SubSeq(content, 2, 2) = "\n"
                   THEN SplitKeepingEndings(From(content, 3),
                            Append(lines, currentLine \o "\r\n"), "")
                   ELSE SplitKeepingEndings(From(content, 2),
                            Append(lines, currentLine \o "\r"), "")
              ELSE SplitKeepingEndings(From(content, 2), lines,
                                       currentLine \o char)

\* splitLinesPreservingEndings
splitLinesPreservingEndings(content) ==
    IF content = "" THEN <<"">> ELSE SplitKeepingEndings(content, <<>>, "")

RECURSIVE JoinEmpty(_)
\* selectedLines.join('')
JoinEmpty(lines) ==
    IF lines = <<>> THEN "" ELSE Head(lines) \o JoinEmpty(Tail(lines))

\* array.slice(from, to): a negative index counts from the end of the
\* array, and both indices are clamped to the array
Slice(seq, from, to) ==
    LET n == Len(seq)
        first == IF from < 0 THEN Max(n + from, 0) ELSE Min(from, n)
        last == IF to < 0 THEN Max(n + to, 0) ELSE Min(to, n)
    IN IF first >= last THEN <<>> ELSE SubSeq(seq, first + 1, last)

\* the lengths of an internal read: a number of lines, or the
\* Number.MAX_SAFE_INTEGER of the edit operations
InternalLengths == 0..MaxLen \cup {MAX_SAFE_INTEGER}

\* readFileInternal(filePath, offset, length) on an admitted file that is
\* not an image, up to its return
ReadFileInternal ==
    /\ rd = NoRead
    /\ \E content \in Strings(MaxLen), offset \in (-MaxOffset)..MaxOffset,
          length \in InternalLengths :
          rd' = [pc |-> "internal", content |-> content, offset |-> offset,
                 length |-> length,
                 text |-> IF offset = 0 /\ length >= MAX_SAFE_INTEGER
                          THEN content
                          ELSE JoinEmpty(Slice(
                                   splitLinesPreservingEndings(content),
                                   offset, offset + length))]
    /\ UNCHANGED <<gateVars, searchVars, probeVars>>

\* the caller has the string
ReadFileInternalReturn ==
    /\ rd.pc = "internal"
    /\ rd' = NoRead
    /\ UNCHANGED <<gateVars, searchVars, probeVars>>

ReadNext ==
    \/ ReadFileWithSmartPositioning
    \/ ReadLastNLinesReverse
    \/ ReadFromEndWithReadline
    \/ ReadFromStartWithReadline
    \/ ReadFromEstimatedPositionSample
    \/ ReadFromEstimatedPosition
    \/ ReadFinish
    \/ ReadFails
    \/ ReadFileFromDiskCatch
    \/ ReadReturn
    \/ ReadFileInternal
    \/ ReadFileInternalReturn

SpecRead == ReadInit /\ [][ReadNext]_vars

-----------------------------------------------------------------------------
(* The lines of a file, and the claims about display reads *)

\* the byte of content at position i, counted from 1
ByteAt(content, i) == SubSeq(content, i, i)

\* the positions where a line terminator of content ends: a \n, or a \r
\* that no \n follows
LineEnds(content) ==
    {i \in 1..Len(content) :
        \/ ByteAt(content, i) = "\n"
        \/ /\ ByteAt(content, i) = "\r"
           /\ (i = Len(content) \/ ByteAt(content, i + 1) # "\n")}

\* the text of the line of content that the terminator ending at e closes:
\* it starts after the terminator before it, and the terminator is not part
\* of it
LineBefore(content, e) ==
    LET before == {i \in LineEnds(content) : i < e}
        first == IF before = {} THEN 1
                 ELSE 1 + CHOOSE i \in before : \A j \in before : j <= i
        last == IF ByteAt(content, e) = "\n" /\ e > 1
                   /\ ByteAt(content, e - 1) = "\r"
                THEN e - 2 ELSE e - 1
    IN SubSeq(content, first, last)

\* the lines of a file in file order: one for each line terminator, and one
\* more for the bytes after the last terminator if there are any
FileLines(content) ==
    LET ends == LineEnds(content)
        n == Cardinality(ends)
        nth(k) == CHOOSE e \in ends : Cardinality({i \in ends : i <= e}) = k
        rest == IF ends = {} THEN content
                ELSE From(content,
                          1 + CHOOSE i \in ends : \A j \in ends : j <= i)
        closed == [k \in 1..n |-> LineBefore(content, nth(k))]
    IN IF rest = "" THEN closed ELSE Append(closed, rest)

\* the last k entries of a sequence that has at least k
LastK(seq, k) == SubSeq(seq, Len(seq) - k + 1, Len(seq))

\* the entries of a sequence at the 0-based indices [offset, offset+length),
\* up to its end
Window(seq, offset, length) ==
    SubSeq(seq, offset + 1, Min(offset + length, Len(seq)))

TailReadDone == rd.pc = "done" /\ rd.offset < 0

\* a tail read returned the last k of the given lines, if there are k
TailOf(lines) ==
    Len(lines) >= -rd.offset =>
        /\ rd.result = LastK(lines, -rd.offset)
        /\ rd.text = generateEnhancedStatusMessage(-rd.offset, rd.offset,
                         rd.totalLines, TRUE)
                     \o "\n\n" \o JoinNewline(LastK(lines, -rd.offset))

\* C9: a display read with offset = -k of a file that has at least k lines
\* returns the last k lines of the file in file order, under the backward
\* chunk reader and under the circular buffer alike, whatever the length
\* argument is.  A line is read here in the way most favourable to the
\* reader: the read passes if it returned the last k lines of the file, or
\* the last k entries of the content split at "\n".
C9_TailReadReturnsLastLines ==
    TailReadDone => (TailOf(FileLines(rd.content))
                     \/ TailOf(SplitNewline(rd.content)))

\* the backward chunk reader alone returns the last k lines of the file
ReverseReturnsLastLines ==
    (TailReadDone /\ rd.strategy = "reverse") => TailOf(FileLines(rd.content))

\* the circular buffer alone returns the last k lines of the file
CircularReturnsLastLines ==
    (TailReadDone /\ rd.strategy = "circular") =>
        TailOf(FileLines(rd.content))

\* a forward read of a file below the large-file threshold has returned
SmallForwardReadDone ==
    /\ rd.pc = "done"
    /\ rd.offset >= 0
    /\ Len(rd.content) < LARGE_FILE_THRESHOLD

\* the read returned the lines of the window, under their status line
ForwardWindow ==
    LET window == Window(FileLines(rd.content), rd.offset, rd.length)
    IN /\ rd.strategy = "forward"
       /\ rd.result = window
       /\ rd.text = generateEnhancedStatusMessage(Len(window), rd.offset,
                        rd.totalLines, FALSE)
                    \o "\n\n" \o JoinNewline(window)

\* C10 as stated: a forward read of a file below the large-file threshold
\* returns the lines of the file at the 0-based indices
\* [offset, offset+length), up to the end of the file, and it returns no
\* line when offset is the index of the last line or greater, or when
\* length is 0.
C10_EmptyAtTheLastLine ==
    SmallForwardReadDone =>
        /\ ForwardWindow
        /\ (rd.offset >= Len(FileLines(rd.content)) - 1 \/ rd.length = 0)
              => rd.result = <<>>

\* C10: a forward read of a file below the large-file threshold returns the
\* lines of the file at the 0-based indices [offset, offset+length), up to
\* the end of the file, and it returns no line exactly when offset is the
\* number of lines of the file or greater, or length is 0.
C10_ForwardReadReturnsWindow ==
    SmallForwardReadDone =>
        /\ ForwardWindow
        /\ (rd.offset >= Len(FileLines(rd.content)) \/ rd.length = 0)
              <=> rd.result = <<>>

\* a window from inside a file of three lines
C10_Witness ==
    /\ SmallForwardReadDone
    /\ Len(FileLines(rd.content)) = 3
    /\ rd.offset = 1
    /\ rd.length = 1
    /\ rd.result = <<FileLines(rd.content)[2]>>

-----------------------------------------------------------------------------
(* Internal reads *)

\* the line terminators
Terminators == {"\n", "\r\n", "\r"}

\* s ends with a terminator and holds none before it
IsTerminatedLine(s) ==
    \E t \in Terminators :
        /\ Len(s) >= Len(t)
        /\ SubSeq(s, Len(s) - Len(t) + 1, Len(s)) = t
        /\ \A i \in 1..(Len(s) - Len(t)) : ByteAt(s, i) \notin {"\n", "\r"}
        /\ ~(t = "\n" /\ Len(s) >= 2 /\ ByteAt(s, Len(s) - 1) = "\r")

\* s holds no terminator at all
IsUnterminatedLine(s) ==
    \A i \in 1..Len(s) : ByteAt(s, i) \notin {"\n", "\r"}

InternalReadDone == rd.pc = "internal"

\* C11: the pieces splitLinesPreservingEndings cuts a content into give the
\* content back when they are concatenated, every piece but the last is one
\* line with its own terminator at its end, the last is such a line or the
\* unterminated rest, and readFileInternal with offset 0 and a length of at
\* least the number of pieces returns the content byte for byte.
C11_InternalReadIsLossless ==
    InternalReadDone =>
        LET pieces == splitLinesPreservingEndings(rd.content) IN
        /\ JoinEmpty(pieces) = rd.content
        /\ \A i \in 1..(Len(pieces) - 1) : IsTerminatedLine(pieces[i])
        /\ \/ IsTerminatedLine(pieces[Len(pieces)])
           \/ IsUnterminatedLine(pieces[Len(pieces)])
        /\ (rd.offset = 0 /\ rd.length >= Len(pieces)) => rd.text = rd.content

\* a whole-file read by line count of a content with \n, \r\n and an
\* unterminated last line
C11_Witness ==
    /\ InternalReadDone
    /\ rd.content = "a\n\r\na"
    /\ rd.offset = 0
    /\ rd.length = 3
    /\ rd.text = rd.content
    /\ splitLinesPreservingEndings(rd.content) = <<"a\n", "\r\n", "a">>

-----------------------------------------------------------------------------
(* Strategy selection *)

\* a display read is under way or has returned its FileResult
DisplayReadInFlight ==
    rd.pc \notin {"idle", "internal", "failed", "binary", "rejected"}

\* the steps a strategy consists of
StepsOf(strategy) ==
    IF strategy = "sample" THEN {"sample", "estimated"} ELSE {strategy}

\* C12: every display read runs exactly one strategy, fixed by the size of
\* the file and the offset alone: the backward chunk reader iff offset < 0,
\* the size is above the large-file threshold and -offset is at most the
\* small-read threshold; the circular buffer for every other offset < 0;
\* the estimated-position reader iff offset >= 0, the size is not below the
\* large-file threshold and offset exceeds the deep-offset threshold; the
\* forward reader otherwise.  No step of another strategy is ever taken.
C12_OneStrategyBySizeAndOffset ==
    DisplayReadInFlight =>
        LET size == Len(rd.content)
            tail == rd.offset < 0
            backward == /\ tail
                        /\ size > LARGE_FILE_THRESHOLD
                        /\ -rd.offset <= SMALL_READ_THRESHOLD
            estimated == /\ ~tail
                         /\ size >= LARGE_FILE_THRESHOLD
                         /\ rd.offset > DEEP_OFFSET_THRESHOLD
        IN /\ rd.strategy \in {"reverse", "circular", "sample", "forward"}
           /\ rd.strategy = "reverse" <=> backward
           /\ rd.strategy = "circular" <=> (tail /\ ~backward)
           /\ rd.strategy = "sample" <=> estimated
           /\ rd.strategy = "forward" <=> (~tail /\ ~estimated)
           /\ rd.pc \in StepsOf(rd.strategy) \cup {"finish", "done"}

\* a deep forward read of a file of exactly the threshold is an estimated
\* one, and has reached its second stream
C12_Witness ==
    /\ DisplayReadInFlight
    /\ rd.pc = "estimated"
    /\ rd.strategy = "sample"
    /\ Len(rd.content) = LARGE_FILE_THRESHOLD
    /\ rd.offset = DEEP_OFFSET_THRESHOLD + 1

-----------------------------------------------------------------------------
(* checkRipgrepAvailability called by several callers side by side *)

ProbeInit ==
    /\ platform = "linux"
    /\ allowedDirectories = <<"/ws">>
    /\ disk = DiskOf(LinuxNodes)
    /\ call = NoCall
    /\ admitted = {}
    /\ touched = {}
    /\ diskAtStart = disk
    /\ ncalls = 0
    /\ SearchIdle

\* resolve(value) of the promise of probe i: the first call settles the
\* promise and wakes the caller that awaits it, later calls do nothing
Resolve(p, i, value) ==
    IF p.probes[i].resolved THEN p
    ELSE [p EXCEPT !.probes[i].resolved = TRUE,
                   !.callers[p.probes[i].owner] =
                       [pc |-> "resolved", value |-> value]]

\* a caller invokes checkRipgrepAvailability: the memo answers, or spawn
\* throws into the catch, or a probe is spawned with its 2 s timer
CheckStart ==
    /\ pr.checks < MaxChecks
    /\ \E c \in 1..MaxCallers, thrown \in BOOLEAN :
          /\ pr.callers[c].pc = "idle"
          /\ IF ripgrepAvailable # "null"
             THEN /\ pr' = [pr EXCEPT !.checks = @ + 1,
                                      !.callers[c] =
                                          [pc |-> "resolved",
                                           value |-> ripgrepAvailable = "true"]]
                  /\ UNCHANGED ripgrepAvailable
             ELSE IF thrown
                  THEN /\ ripgrepAvailable' = "false"
                       /\ pr' = [pr EXCEPT !.checks = @ + 1,
                                           !.callers[c] =
                                               [pc |-> "resolved",
                                                value |-> FALSE]]
                  ELSE /\ pr' = [pr EXCEPT
                                   !.checks = @ + 1,
                                   !.callers[c].pc = "waiting",
                                   !.probes = Append(@,
                                       [proc |-> "running", timer |-> TRUE,
                                        owner |-> c, resolved |-> FALSE])]
                       /\ UNCHANGED ripgrepAvailable
    /\ UNCHANGED <<gateVars, readVars, probe, rg, sc, stack, results, slog,
                   timers, nsearch>>

\* testProcess.on('close') of one of the probes
CheckProbeClose ==
    /\ \E i \in 1..Len(pr.probes) :
       \E code \in ProbeCodes(pr.probes[i].proc) :
          /\ ripgrepAvailable' = IF code = 0 THEN "true" ELSE "false"
          /\ pr' = [Resolve(pr, i, code = 0) EXCEPT
                       !.probes[i].proc = "exited"]
    /\ UNCHANGED <<gateVars, readVars, probe, rg, sc, stack, results, slog,
                   timers, nsearch>>

\* testProcess.on('error') of one of the probes
CheckProbeError ==
    /\ \E i \in 1..Len(pr.probes) :
          /\ pr.probes[i].proc = "running"
          /\ pr' = [Resolve(pr, i, FALSE) EXCEPT !.probes[i].proc = "errored"]
    /\ ripgrepAvailable' = "false"
    /\ UNCHANGED <<gateVars, readVars, probe, rg, sc, stack, results, slog,
                   timers, nsearch>>

\* the 2 s timer of one of the probes, which nothing clears
CheckProbeTimeout ==
    /\ \E i \in 1..Len(pr.probes) :
          /\ pr.probes[i].timer
          /\ pr' = [Resolve(pr, i, FALSE) EXCEPT
                       !.probes[i].timer = FALSE,
                       !.probes[i].proc = IF @ = "running" THEN "killed"
                                          ELSE @]
    /\ ripgrepAvailable' = "false"
    /\ UNCHANGED <<gateVars, readVars, probe, rg, sc, stack, results, slog,
                   timers, nsearch>>

\* a caller has its answer and goes on
CheckReturn ==
    /\ \E c \in 1..MaxCallers :
          /\ pr.callers[c].pc = "resolved"
          /\ pr' = [pr EXCEPT !.callers[c] = [pc |-> "idle", value |-> FALSE]]
    /\ UNCHANGED <<gateVars, readVars, ripgrepAvailable, probe, rg, sc, stack,
                   results, slog, timers, nsearch>>

ProbeNext ==
    \/ CheckStart
    \/ CheckProbeClose
    \/ CheckProbeError
    \/ CheckProbeTimeout
    \/ CheckReturn

SpecProbe == ProbeInit /\ [][ProbeNext]_vars

\* C13: however many availability checks are started before the first has
\* settled, one probe subprocess is spawned in total.
C13_OneProbeSpawned == Len(pr.probes) <= 1

\* C14: once the memo is set, no close event, error event or timer of any
\* probe changes its value.
C14_MemoIsWrittenOnce ==
    [][ripgrepAvailable # "null" => ripgrepAvailable' = ripgrepAvailable]_vars

-----------------------------------------------------------------------------
(* Failures of the probe and of the engine *)

-----------------------------------------------------------------------------
(* The two content engines side by side *)

RECURSIVE FallbackDir(_, _, _, _)
\* searchCodeFallback run to its end in one go, no validation being late:
\* the results after the entries names of dirPath, res being the results
\* so far and o the options of the call
FallbackDir(res, dirPath, names, o) ==
    IF names = <<>> \/ Len(res) >= o.maxResults THEN res
    ELSE LET name == Head(names)
             fullPath == PathJoin(dirPath, name)
             ok == validatePath(disk, fullPath, FALSE).ok
             after ==
                IF ~ok THEN res
                ELSE IF IsDirectory(disk, fullPath)
                     THEN IF name \in FallbackExcludeDirs
                             \/ Len(res) >= o.maxResults
                             \/ ~CanReaddir(disk, fullPath)
                          THEN res
                          ELSE FallbackDir(res, fullPath,
                                           Entries(disk, fullPath), o)
                     ELSE IF IsFile(disk, fullPath)
                          THEN FallbackScan(res, fullPath,
                                   SplitNewline(FileContent(fullPath)), 1, o)
                          ELSE res
         IN FallbackDir(after, dirPath, Tail(names), o)

\* what searchCodeFallback(options) returns for the root validPath
FallbackResult(validPath, o) ==
    IF CanReaddir(disk, validPath)
    THEN FallbackDir(<<>>, validPath, Entries(disk, validPath), o)
    ELSE <<>>

\* the search in flight was answered by the engine within its deadline
EngineServed ==
    /\ sc.op = "searchTextInFiles"
    /\ sc.pc = "done"
    /\ sc.served = "engine"
    /\ ~rg.hasTimedOut

\* the walker run step by step returns what FallbackResult computes
WalkerIsFallbackResult ==
    (/\ sc.op = "searchTextInFiles"
     /\ sc.pc = "done"
     /\ sc.served = "fallback"
     /\ sc.error = ""
     /\ slog.timeouts = 0) =>
        sc.returned = FallbackResult(sc.validPath, sc)

\* C16: what the engine returned for a call is, as a set of (file, line,
\* text) records, what the fallback walker returns for the same root,
\* pattern and options on the same files.
C16_EnginesReturnTheSameSet ==
    EngineServed => Range(sc.returned) = Range(FallbackResult(sc.validPath, sc))

\* C17: searchTextInFiles returns at most maxResults records, whichever
\* engine answered.
C17_AtMostMaxResults ==
    (sc.op = "searchTextInFiles" /\ sc.pc = "done") =>
        Len(sc.returned) <= sc.maxResults

\* the fallback walker alone keeps to maxResults when no context is asked
FallbackKeepsMaxResultsWithoutContext ==
    (/\ sc.op = "searchTextInFiles"
     /\ sc.pc = "done"
     /\ sc.served = "fallback"
     /\ sc.contextLines = 0) =>
        Len(sc.returned) <= sc.maxResults

-----------------------------------------------------------------------------
(* The deadline of the engine *)

\* the search in flight was answered by searchCode after the 30 s timer
\* had fired
EngineServedLate ==
    /\ sc.op = "searchTextInFiles"
    /\ sc.pc = "done"
    /\ sc.served = "engine"
    /\ rg.hasTimedOut

\* C18: a searchCode call whose engine ran past the deadline resolves
\* without an error, and its result holds every match that was in the
\* output of the engine when the deadline passed (atDeadline is the output
\* buffer at that moment).
C18_DeadlineKeepsMatches ==
    EngineServedLate =>
        /\ sc.error = ""
        /\ Range(ParseRecords(<<>>, rg.atDeadline, sc.contextLines))
              \subseteq Range(sc.returned)

\* the first half alone: a call answered after the deadline has no error
LateEngineResolves == EngineServedLate => sc.error = ""

\* the 30 s timer has fired and so has the 1 s timer it set
GracePeriodOver == rg.hasTimedOut /\ ~rg.killTimer

\* C19: an engine that is running at the deadline has been sent SIGTERM,
\* and once the grace period is over as well no engine is left running: it
\* has exited, or it has been sent SIGKILL.
C19_NoEngineOutlivesTheGracePeriod ==
    /\ (rg.hasTimedOut /\ rg.proc = "running") => rg.killed
    /\ GracePeriodOver => rg.proc # "running"

\* the first half alone: an engine running past the deadline was sent
\* SIGTERM
DeadlineSendsSigterm == (rg.hasTimedOut /\ rg.proc = "running") => rg.killed

\* the forced kill is never sent at all
SigkillIsNeverSent == ~rg.sigkill

-----------------------------------------------------------------------------
(* The deadline of searchFiles *)

\* the step in which a searchFiles call settles after its deadline stopped
\* the walk of an admitted root: searchCancelled was set by the timer or by
\* the clock test of search()
SettlesCutShort ==
    /\ sc.pc # "done"
    /\ sc'.pc = "done"
    /\ sc'.op = "searchFiles"
    /\ sc'.raced
    /\ sc'.searchCancelled

\* C20: a searchFiles call that its deadline cut short returns the results
\* collected so far when there is at least one, and fails with the timeout
\* error when there is none; it does not return an empty list.
C20_TimeoutNeverReturnsEmpty ==
    [][SettlesCutShort =>
          IF results' # <<>>
          THEN sc'.error = "" /\ sc'.returned = results'
          ELSE sc'.error = "Search operation timed out"]_vars

\* the part that holds: a call cut short with results collected returns
\* them, and one that fails fails with the timeout error and had collected
\* nothing
PartialResultsAreReturned ==
    [][SettlesCutShort =>
          /\ results' # <<>> => (sc'.error = "" /\ sc'.returned = results')
          /\ sc'.error # "" => (/\ sc'.error = "Search operation timed out"
                                /\ results' = <<>>)]_vars

-----------------------------------------------------------------------------
(* What the caller of a search is told *)

\* handleSearchFiles: the response to the caller of searchFiles for the
\* settled call c, the lists of options and advice left out of the text
handleSearchFiles(c) ==
    IF c.error # ""
    THEN IF Includes(c.error, "timed out")
         THEN [isError |-> TRUE,
               text |-> "Search operation timed out. Try:\n\nError: "
                            \o c.error]
         ELSE [isError |-> TRUE, text |-> "Error: " \o c.error]
    ELSE IF Len(c.returned) = 0
         THEN [isError |-> FALSE,
               text |-> "No matches found for pattern \"" \o c.pattern
                            \o "\" in " \o c.rootPath]
         ELSE [isError |-> FALSE,
               text |-> "Found " \o NumberToString(Len(c.returned))
                            \o " matches for pattern \"" \o c.pattern
                            \o "\":\n\n" \o JoinNewline(c.returned)
                            \o (IF Len(c.returned) >= c.maxResults
                                THEN "\n\nResults limited to "
                                         \o NumberToString(c.maxResults)
                                ELSE "")
                            \o (IF c.maxDepth < 20
                                THEN "\nSearched to depth "
                                         \o NumberToString(c.maxDepth)
                                ELSE "")]

\* what the caller of the settled call c observes: the response of the
\* handler for searchFiles, the rejection or the array for searchTextInFiles
Answer(c) ==
    IF c.op = "searchFiles" THEN handleSearchFiles(c)
    ELSE [error |-> c.error, returned |-> c.returned]

\* the call c had it settled with the same results by a search that ran to
\* its end
AsCompleted(c) == [c EXCEPT !.error = ""]

\* the step in which searchCode resolves after its 30 s timer has fired
SettlesLateEngine ==
    /\ sc.pc # "done"
    /\ sc'.pc = "done"
    /\ sc'.op = "searchTextInFiles"
    /\ sc'.served = "engine"
    /\ rg.hasTimedOut

\* C21: what the caller of a search that ran out of time observes differs
\* from what it observes of a search that completed with the same results:
\* partial results are marked as partial, and a timeout without results is
\* not told as "no matches".
C21_TimeoutIsToldApart ==
    [][(SettlesCutShort \/ SettlesLateEngine) =>
          Answer(sc') # Answer(AsCompleted(sc'))]_vars

\* the part that holds: when the rejection of the timer settles a
\* searchFiles call that has no result, the response is the timeout error
TimerRejectionIsTold ==
    [][(SettlesCutShort /\ sc'.error # "") =>
          /\ handleSearchFiles(sc').isError
          /\ Includes(handleSearchFiles(sc').text, "timed out")
          /\ Answer(sc') # Answer(AsCompleted(sc'))]_vars

-----------------------------------------------------------------------------
(* The deadline of the fallback walker *)

\* the fallback walker is walking and the deadline of its call has passed:
\* the 30 s timer of searchCode, the one timer searchTextInFiles sets, has
\* fired (the engine then failed with an error event, as when the signal
\* cannot be delivered); the walker itself sets no timer and reads no clock
FallbackPastDeadline == sc.pc = "fb_walk" /\ rg.hasTimedOut

\* C22: once the deadline of a content search served by the fallback walker
\* has passed, the walker lists no directory and reads no file any more,
\* and the call returns the matches gathered by then.
C22_FallbackStopsAtTheDeadline ==
    [][FallbackPastDeadline =>
          /\ slog'.readdirs = slog.readdirs
          /\ slog'.reads = slog.reads
          /\ results' = results
          /\ sc'.pc = "done" => sc'.returned = results]_vars

\* the part that holds: whenever the fallback walker settles, before or
\* after the deadline, the call returns the matches gathered
FallbackReturnsWhatItGathered ==
    [][(sc.pc = "fb_walk" /\ sc'.pc = "done") =>
          sc'.error = "" /\ sc'.returned = results']_vars

-----------------------------------------------------------------------------
(* The depth limit of searchFiles *)

\* a searchFiles call has returned and its walk ended by itself: no timeout
\* of the search or of a validation, maxResults not reached
WalkedUncut ==
    /\ sc.op = "searchFiles"
    /\ sc.pc = "done"
    /\ stack = <<>>
    /\ sc.error = ""
    /\ ~sc.searchCancelled
    /\ slog.timeouts = 0
    /\ Len(results) < sc.maxResults

\* how many levels below the root of the search the entry p lies: 0 for the
\* root, 1 for what the root lists
Level(p) == Len(Split(p)) - Len(Split(sc.validPath))

\* the entries looked at that were admitted and whose name has the pattern
MatchingAdmitted ==
    {e \in slog.seen \cap slog.validated : NameMatches(Basename(e))}

\* C23: a searchFiles call that nothing cut short returns exactly the
\* admitted entries whose name contains the pattern, and one depth limit K
\* holds for files and directories alike: nothing below level K is looked
\* at, and of a directory above level K every file and every directory that
\* is not excluded is looked at. K is maxDepth, or maxDepth + 1 when the
\* entries of the root are counted as level 0.
C23_OneDepthLimitForAllEntries ==
    WalkedUncut =>
        /\ Range(sc.returned) = MatchingAdmitted
        /\ \E K \in {sc.maxDepth, sc.maxDepth + 1} :
              /\ \A e \in slog.seen : Level(e) <= K
              /\ \A d \in slog.readdirs :
                    Level(d) < K => Due(d) \subseteq slog.seen

\* what holds instead: the files of a directory at level maxDepth are looked
\* at and returned, its directories are not, and what is returned is what
\* was looked at, admitted and matches
FilesReachOneLevelDeeper ==
    WalkedUncut =>
        /\ Range(sc.returned) = MatchingAdmitted
        /\ \A e \in slog.seen :
              Level(e) <= (IF IsFile(disk, e) THEN sc.maxDepth + 1
                           ELSE sc.maxDepth)
        /\ \A d \in slog.readdirs :
              /\ Level(d) <= sc.maxDepth
              /\ \A e \in Due(d) :
                    (IsFile(disk, e) \/ Level(d) < sc.maxDepth)
                        => e \in slog.seen

-----------------------------------------------------------------------------
(* The handles of a display read *)

\* a display read has settled: its FileResult or its error is with the caller
DisplayReadSettled == rd.pc \in {"done", "binary", "rejected"}

\* C24: when a display read settles, with a result or with an error, every
\* descriptor and every stream it opened is closed.
C24_HandlesClosedWhenSettled == DisplayReadSettled => rd.open = {}

\* the part that holds: the descriptor of fs.open is closed whenever the
\* call settles, and so is a stream that was read to its end or that failed
DescriptorsClosedWhenSettled ==
    /\ DisplayReadSettled => "fd" \notin rd.open
    /\ (rd.pc = "done" /\ rd.strategy \in {"circular", "reverse"})
          => rd.open = {}
    /\ (rd.pc = "done" /\ rd.pending = <<>> /\ rd.strategy = "forward")
          => rd.open = {}

-----------------------------------------------------------------------------
(* Paths that do not exist yet *)

\* the requested path a does not exist when its call begins and is nested
\* under an allowed directory
NewNested(a) ==
    /\ InsideAllowed(toAbsolutePath(a))
    /\ RealPath(diskAtStart, toAbsolutePath(a)) = NoPath

\* the call ended because validatePath rejected its next path argument, and
\* not for running out of time
RejectedNow ==
    /\ call.pc = "done"
    /\ Len(call.valid) < Len(call.args)
    /\ call.error # "timeout"

\* the new nested path /ws/n..m is rejected under the allow-list /ws
NewNestedPathDenied ==
    /\ call.op \in GateOps
    /\ allowedDirectories = <<"/ws">>
    /\ RejectedNow
    /\ DeniedArg = "/ws/n..m"
    /\ NewNested(DeniedArg)

\* C25: for a requested path that does not exist and is nested under an
\* allowed directory validatePath returns the absolute form of the path and
\* never rejects it, wherever its nearest existing ancestor is.
C25_NewNestedPathIsReturned ==
    call.op \in GateOps =>
        /\ \A i \in 1..Len(call.valid) :
              NewNested(call.args[i])
                  => call.valid[i] = toAbsolutePath(call.args[i])
        /\ RejectedNow => ~NewNested(DeniedArg)

\* the part that holds: a path that does not exist and that isPathAllowed
\* lets through is returned in its absolute form, whether or not the walk
\* over its parents finds one that exists; a rejection of a new nested path
\* is the denial of isPathAllowed
NewAllowedPathIsReturned ==
    call.op \in GateOps =>
        /\ \A i \in 1..Len(call.valid) :
              RealPath(diskAtStart, toAbsolutePath(call.args[i])) = NoPath
                  => /\ call.valid[i] = toAbsolutePath(call.args[i])
                     /\ isPathAllowed(call.valid[i])
        /\ (RejectedNow /\ NewNested(DeniedArg))
              => /\ call.error = "Path not allowed"
                 /\ ~isPathAllowed(toAbsolutePath(DeniedArg))

-----------------------------------------------------------------------------
(* The timeout of validatePath *)

\* C26: when the timer of a validation fires before the validation is done,
\* validatePath fails, with an error that is not the denial error, whether or
\* not the path is allowed, and the path is not admitted.
C26_ValidationTimeoutIsDistinct ==
    (call.op \in GateOps /\ call.timedOut) =>
        /\ call.pc = "done"
        /\ call.error # ""
        /\ call.error # Denied.error
        /\ call.error = TimedOut.error
        /\ Len(call.valid) < Len(call.args)
        /\ touched = {}

\* the validation of a path that is not allowed ran out of time: the call
\* failed and its error is not the denial
C26_Witness ==
    /\ call.op \in GateOps
    /\ call.timedOut
    /\ call.pc = "done"
    /\ ~validationOperation(diskAtStart, DeniedArg).ok
    /\ call.error = TimedOut.error

\* the validation of a path that is allowed ran out of time as well
AllowedPathTimedOut ==
    /\ call.op \in GateOps
    /\ call.timedOut
    /\ call.pc = "done"
    /\ validationOperation(diskAtStart, DeniedArg).ok

-----------------------------------------------------------------------------
(* The binary fallback of readFileFromDisk *)

\* readFileFromDisk has settled after the text read of a file that is not
\* an image failed
SettledAfterTextFailure == rd.pc \in {"binary", "rejected"}

\* the number a digit of base64 stands for
Base64Value(c) ==
    CHOOSE n \in 0..63 : SubSeq(Base64Digits, n + 1, n + 1) = c

\* the byte of a char code
Chr(n) == CASE n = 97 -> "a" [] n = 10 -> "\n" [] n = 13 -> "\r" [] OTHER -> "?"

RECURSIVE Base64Decode(_)
\* the bytes a base64 text stands for: four digits make three bytes, less
\* where the last group is padded
Base64Decode(t) ==
    IF Len(t) < 4 THEN ""
    ELSE LET d(i) == SubSeq(t, i, i)
             v(i) == IF d(i) = "=" THEN 0 ELSE Base64Value(d(i))
             n == v(1) * 262144 + v(2) * 4096 + v(3) * 64 + v(4)
         IN Chr(n \div 65536)
               \o (IF d(3) = "=" THEN "" ELSE Chr((n \div 256) % 256))
               \o (IF d(4) = "=" THEN "" ELSE Chr(n % 256))
               \o Base64Decode(From(t, 5))

\* the notice a binary fallback begins with
BinaryNotice == "Binary file content (base64 encoded):\n"

\* C27 as claimed: after a failure of the text read of a file that is not an
\* image, readFileFromDisk never fails: it returns the whole file in base64
\* behind the notice, with isImage false.
C27_TextFailureNeverSurfaces ==
    SettledAfterTextFailure =>
        /\ rd.pc = "binary"
        /\ StartsWith(rd.result.content, BinaryNotice)
        /\ ~rd.result.isImage

\* C27 as amended: after a failure of the text read of a file that is not an
\* image, readFileFromDisk returns the whole file in base64 behind the
\* notice, as text/plain with isImage false, when the bytes of the file can
\* be read; it fails only when reading the bytes fails as well.
C27_BinaryFallbackWhenReadable ==
    SettledAfterTextFailure =>
        IF rd.readable
        THEN /\ rd.pc = "binary"
             /\ StartsWith(rd.result.content, BinaryNotice)
             /\ Base64Decode(From(rd.result.content, Len(BinaryNotice) + 1))
                   = rd.content
             /\ rd.result.mimeType = "text/plain"
             /\ ~rd.result.isImage
        ELSE rd.pc = "rejected" /\ rd.error # ""

\* the text read of a file of five bytes, two lines and a lone \r, failed
\* and the file came back in base64
C27_Witness ==
    /\ rd.pc = "binary"
    /\ rd.content = "a\r\na\r"
    /\ rd.result.content = BinaryNotice \o "YQ0KYQ0="

-----------------------------------------------------------------------------
(* Regular expressions: new RegExp(source, flags) and RegExp.prototype.test *)
(* for the part of the syntax the code's patterns and the model's file      *)
(* patterns use: literal characters, escapes, \w, ".", negated classes,     *)
(* "^", "$" and the quantifiers "*", "+", "?"                               *)

\* the characters \w stands for
WordChars == "abcdefghijklmnopqrstuvwxyzABCDEFGHIJKLMNOPQRSTUVWXYZ0123456789_"

\* one term of a compiled pattern: what one character must be and how often
\* the term repeats
Term(k, v) == [k |-> k, v |-> v, q |-> "1", lazy |-> FALSE]

\* the index of the "]" that closes the class opened before position i, or 0
RECURSIVE ClassEnd(_, _)
ClassEnd(src, i) ==
    IF i > Len(src) THEN 0
    ELSE IF SubSeq(src, i, i) = "\\" THEN ClassEnd(src, i + 2)
         ELSE IF SubSeq(src, i, i) = "]" THEN i
              ELSE ClassEnd(src, i + 1)

\* the characters a class body lists, escapes resolved
RECURSIVE ClassChars(_)
ClassChars(body) ==
    IF body = "" THEN ""
    ELSE IF SubSeq(body, 1, 1) = "\\"
         THEN SubSeq(body, 2, 2) \o ClassChars(SubSeq(body, 3, Len(body)))
         ELSE SubSeq(body, 1, 1) \o ClassChars(SubSeq(body, 2, Len(body)))

RECURSIVE Compile(_, _, _)
\* the parser of new RegExp: ok is FALSE where it throws a SyntaxError
\* ("Nothing to repeat", "\ at end of pattern", "Unterminated character
\* class")
Compile(src, i, terms) ==
    IF i > Len(src) THEN [ok |-> TRUE, terms |-> terms]
    ELSE LET c == SubSeq(src, i, i)
             n == Len(terms)
         IN
         IF c = "\\"
         THEN IF i = Len(src) THEN [ok |-> FALSE, terms |-> <<>>]
              ELSE LET e == SubSeq(src, i + 1, i + 1) IN
                   Compile(src, i + 2,
                           Append(terms, IF e = "w" THEN Term("word", "")
                                         ELSE Term("lit", e)))
         ELSE IF c = "["
         THEN LET neg == SubSeq(src, i + 1, i + 1) = "^"
                  from == IF neg THEN i + 2 ELSE i + 1
                  end == ClassEnd(src, from)
              IN IF end = 0 THEN [ok |-> FALSE, terms |-> <<>>]
                 ELSE Compile(src, end + 1,
                              Append(terms,
                                     Term(IF neg THEN "not" ELSE "in",
                                          ClassChars(SubSeq(src, from, end - 1)))))
         ELSE IF c \in {"*", "+", "?"}
         THEN IF n = 0 \/ terms[n].k \in {"bol", "eol"}
              THEN [ok |-> FALSE, terms |-> <<>>]
              ELSE IF terms[n].q = "1"
                   THEN Compile(src, i + 1, [terms EXCEPT ![n].q = c])
                   ELSE IF c = "?" /\ ~terms[n].lazy
                        THEN Compile(src, i + 1, [terms EXCEPT ![n].lazy = TRUE])
                        ELSE [ok |-> FALSE, terms |-> <<>>]
         ELSE IF c = "." THEN Compile(src, i + 1, Append(terms, Term("any", "")))
         ELSE IF c = "^" THEN Compile(src, i + 1, Append(terms, Term("bol", "")))
         ELSE IF c = "$" THEN Compile(src, i + 1, Append(terms, Term("eol", "")))
         ELSE Compile(src, i + 1, Append(terms, Term("lit", c)))

\* new RegExp(source, flags); ignoreCase is the flag "i"
RegExp(source, ignoreCase) ==
    LET parsed == Compile(source, 1, <<>>)
    IN [ok |-> parsed.ok, terms |-> parsed.terms, ignoreCase |-> ignoreCase]

\* whether the character c is one the term stands for
Fits(term, c, ignoreCase) ==
    CASE term.k = "lit" -> IF ignoreCase THEN LowerChar(c) = LowerChar(term.v)
                           ELSE c = term.v
      [] term.k = "any" -> c \notin {"\n", "\r"}
      [] term.k = "word" -> Includes(WordChars, c)
      [] term.k = "in" -> Includes(term.v, c)
      [] term.k = "not" -> ~Includes(term.v, c)
      [] OTHER -> FALSE

RECURSIVE MatchFrom(_, _, _, _)
\* whether the terms match some stretch of s that starts at position i
MatchFrom(terms, s, i, ignoreCase) ==
    IF terms = <<>> THEN TRUE
    ELSE LET t == Head(terms)
             rest == Tail(terms)
             run(j) == \A k \in i..(j - 1) : Fits(t, SubSeq(s, k, k), ignoreCase)
         IN CASE t.k = "bol" -> i = 1 /\ MatchFrom(rest, s, i, ignoreCase)
              [] t.k = "eol" -> i = Len(s) + 1 /\ MatchFrom(rest, s, i, ignoreCase)
              [] OTHER ->
                 LET least == IF t.q \in {"1", "+"} THEN i + 1 ELSE i
                     most == IF t.q \in {"1", "?"} THEN i + 1 ELSE Len(s) + 1
                 IN \E j \in least..most :
                       /\ j <= Len(s) + 1
                       /\ run(j)
                       /\ MatchFrom(rest, s, j, ignoreCase)

\* re.test(s): the pattern matches somewhere in s
Test(re, s) ==
    \E i \in 1..(Len(s) + 1) : MatchFrom(re.terms, s, i, re.ignoreCase)
-----------------------------------------------------------------------------
(* The configuration tools of tools/config.ts: setConfigValue,              *)
(* addAllowedDirectory, removeAllowedDirectory                              *)

\* the values a caller may pass: strings, numbers (by their digits) and arrays
Str(s) == [t |-> "string", s |-> s, items |-> <<>>]
Num(n) == [t |-> "number", s |-> n, items |-> <<>>]
Arr(items) == [t |-> "array", s |-> "", items |-> items]

\* the texts between the commas of s
RECURSIVE SplitComma(_, _, _)
SplitComma(s, acc, cur) ==
    IF s = "" THEN Append(acc, cur)
    ELSE IF SubSeq(s, 1, 1) = ","
         THEN SplitComma(SubSeq(s, 2, Len(s)), Append(acc, cur), "")
         ELSE SplitComma(SubSeq(s, 2, Len(s)), acc, cur \o SubSeq(s, 1, 1))

\* JSON.parse of a number or of a string literal
JSONScalar(text) ==
    IF text # "" /\ \A i \in 1..Len(text) : Includes("0123456789", SubSeq(text, i, i))
    THEN [ok |-> TRUE, value |-> Num(text)]
    ELSE IF /\ Len(text) >= 2
            /\ SubSeq(text, 1, 1) = "\""
            /\ SubSeq(text, Len(text), Len(text)) = "\""
            /\ ~Includes(SubSeq(text, 2, Len(text) - 1), "\"")
            /\ ~Includes(SubSeq(text, 2, Len(text) - 1), "\\")
         THEN [ok |-> TRUE, value |-> Str(SubSeq(text, 2, Len(text) - 1))]
         ELSE [ok |-> FALSE, value |-> Str("")]

\* JSON.parse(text) for numbers, string literals and flat arrays of them;
\* ok is FALSE where it throws a SyntaxError
JSONParse(text) ==
    IF /\ Len(text) >= 2
       /\ SubSeq(text, 1, 1) = "["
       /\ SubSeq(text, Len(text), Len(text)) = "]"
    THEN LET inner == SubSeq(text, 2, Len(text) - 1)
             parts == IF inner = "" THEN <<>> ELSE SplitComma(inner, <<>>, "")
         IN IF \A i \in 1..Len(parts) : JSONScalar(parts[i]).ok
            THEN [ok |-> TRUE,
                  value |-> Arr([i \in 1..Len(parts) |-> JSONScalar(parts[i]).value])]
            ELSE [ok |-> FALSE, value |-> Str("")]
    ELSE JSONScalar(text)

\* the patterns of detectEnterpriseSync, in the order they are tried
enterprisePatterns ==
    << "onedrive.*-.*\\w+", "onedrive.*business", "onedrive.*entreprise",
       "users\\/[^\\/]+\\/onedrive.*-",
       "sharepoint", "sites\\/[^\\/]+", "shared.*documents",
       "company.*sharepoint",
       "teams\\/[^\\/]+", "microsoft.*teams", "teams.*files",
       "\\\\teams\\\\[^\\\\]+", "teams.*chat", "teams.*project",
       "office365", "o365", "microsoft.*365",
       "sync.*\\w+\\.\\w+", "\\w+\\.\\w+.*sync", "corporate.*data",
       "company.*files" >>

\* detectEnterpriseSync(pathToCheck).isEnterprise
detectEnterpriseSync(pathToCheck) ==
    LET normalized == ToLowerCase(PathNormalize(pathToCheck))
    IN \E i \in 1..Len(enterprisePatterns) :
          Test(RegExp(enterprisePatterns[i], TRUE), normalized)

sensitiveDirectories ==
    { "C:\\Windows", "C:\\Program Files", "C:\\Program Files (x86)",
      "/bin", "/sbin", "/usr/bin", "/etc", "/var", "/boot",
      "/System", "/Library", "/Applications",
      "OneDrive - ", "SharePoint", "Sites", "Teams", "Microsoft Teams",
      "Office365", "O365",
      "Sync", "Shared Documents", "Company Files", "Corporate Data" }

\* validateAllowedDirectory(directory).success
validateAllowedDirectory(directory) ==
    LET normalizedDir == PathNormalize(directory)
    IN /\ ~\E dir \in sensitiveDirectories : StartsWith(normalizedDir, dir)
       /\ ~Includes(normalizedDir, "..")
       /\ ~detectEnterpriseSync(directory)

\* what a tool call did: the stored list after it, and whether its result
\* carries isError
Outcome(isError, dirs) == [isError |-> isError, dirs |-> dirs]

\* configManager.setValue('allowedDirectories', value): throws, storing
\* nothing, for a value that is not a list of directories, for the empty list
\* and for a list that holds a directory that may not be allowed
setValue(dirs, value) ==
    IF /\ value.t = "array"
       /\ value.items # <<>>
       /\ \A i \in 1..Len(value.items) :
             /\ value.items[i].t = "string"
             /\ validateAllowedDirectory(value.items[i].s)
    THEN [threw |-> FALSE, dirs |-> [i \in 1..Len(value.items) |-> value.items[i].s]]
    ELSE [threw |-> TRUE, dirs |-> dirs]

\* what `for (const dir of valueToStore)` iterates: the items of an array,
\* the characters of a string; a number is not iterable (TypeError)
Iterated(value) ==
    IF value.t = "array" THEN [ok |-> TRUE, items |-> value.items]
    ELSE IF value.t = "string"
         THEN [ok |-> TRUE,
               items |-> [i \in 1..Len(value.s) |->
                            Str(SubSeq(value.s, i, i))]]
         ELSE [ok |-> FALSE, items |-> <<>>]

\* setConfigValue({key: 'allowedDirectories', value}) with dirs stored
setConfigValue(dirs, value) ==
    LET \* a string that looks like an array or object is parsed
        looks == value.t = "string"
                 /\ (StartsWith(value.s, "[") \/ StartsWith(value.s, "{"))
        v1 == IF looks /\ JSONParse(value.s).ok THEN JSONParse(value.s).value
              ELSE value
        \* "ensure it's an array"
        v2 == IF v1.t = "array" THEN v1
              ELSE IF v1.t = "string"
                   THEN IF JSONParse(v1.s).ok THEN JSONParse(v1.s).value
                        ELSE Arr(<<v1>>)
                   ELSE Arr(<<v1>>)
        each == Iterated(v2)
        \* path.normalize throws a TypeError for an item that is no string
        throws == ~each.ok \/ \E i \in 1..Len(each.items) :
                                  each.items[i].t # "string"
        invalidDirs == {i \in 1..Len(each.items) :
                           ~validateAllowedDirectory(each.items[i].s)}
        \* the handling of known array keys
        v3 == IF v2.t = "array" THEN v2
              ELSE IF v2.t = "string"
                   THEN IF JSONParse(v2.s).ok THEN JSONParse(v2.s).value
                        ELSE IF ~Includes(v2.s, "[") THEN Arr(<<v2>>) ELSE v2
                   ELSE Arr(<<v2>>)
        v4 == IF v3.t = "array" THEN v3 ELSE Arr(<<Str(v3.s)>>)
        stored == setValue(dirs, v4)
    IN IF throws THEN Outcome(TRUE, dirs)
       ELSE IF invalidDirs # {} THEN Outcome(TRUE, dirs)
            ELSE Outcome(stored.threw, stored.dirs)

\* an addAllowedDirectory that appends whatever directory it is given
addAllowedDirectoryUnchecked(dirs, directory) ==
    IF directory \in Range(dirs) THEN Outcome(FALSE, dirs)
    ELSE Outcome(FALSE, Append(dirs, directory))

\* addAllowedDirectory({directory}) with dirs stored
addAllowedDirectory(dirs, directory) ==
    IF ~validateAllowedDirectory(directory) THEN Outcome(TRUE, dirs)
    ELSE IF directory \in Range(dirs) THEN Outcome(FALSE, dirs)
         ELSE LET stored == setValue(dirs, Arr([i \in 1..(Len(dirs) + 1) |->
                                 IF i <= Len(dirs) THEN Str(dirs[i])
                                 ELSE Str(directory)]))
              IN Outcome(stored.threw, stored.dirs)

\* a removeAllowedDirectory that removes the directory from the stored list
removeAllowedDirectoryRemoves(dirs, directory) ==
    Outcome(FALSE, SelectSeq(dirs, LAMBDA d : d # directory))

\* removeAllowedDirectory({directory}) with dirs stored: disabled
removeAllowedDirectory(dirs, directory) == Outcome(TRUE, dirs)

\* directories a caller may name
ConfigDirs ==
    { "/ws", "/tmp", "/opt", "/etc", "/ws/../etc", "/ws/a..b",
      "/u/OneDrive - Corp", "/srv/Sites/p" }

\* values a caller may pass to setConfigValue for the key allowedDirectories
ConfigValues ==
    { Arr(<<>>), Arr(<<Str("/tmp"), Str("/etc")>>),
      Arr(<<Str("/tmp"), Str("/ws")>>), Arr(<<Num("5")>>), Num("5"),
      Str("[]"), Str("/tmp"), Str("/etc"), Str("[\"/etc\"]"),
      Str("[\"/tmp\"]"), Str("\"/etc\""), Str("5"), Str("[\"/tmp\"") }
    \cup { Arr(<<Str(d)>>) : d \in ConfigDirs }

\* the lists the configuration may hold when the server starts
ConfigAllowLists == { <<"/ws">>, <<"/ws", "/tmp">> }

\* the record of a tool call that has returned
Returned(op, arg, r) ==
    [op |-> op, arg |-> arg, isError |-> r.isError,
     before |-> allowedDirectories, pc |-> "done"]

SetConfigValue ==
    /\ ncalls < MaxCalls
    /\ \E value \in ConfigValues :
          \E r \in {setConfigValue(allowedDirectories, value)} :
             /\ allowedDirectories' = r.dirs
             /\ call' = Returned("setConfigValue", value, r)
    /\ ncalls' = ncalls + 1
    /\ UNCHANGED <<platform, disk, admitted, touched, diskAtStart>>
    /\ UNCHANGED <<searchVars, readVars, probeVars>>

AddAllowedDirectory ==
    /\ ncalls < MaxCalls
    /\ \E directory \in ConfigDirs :
          \E r \in {addAllowedDirectory(allowedDirectories, directory)} :
             /\ allowedDirectories' = r.dirs
             /\ call' = Returned("addAllowedDirectory", Str(directory), r)
    /\ ncalls' = ncalls + 1
    /\ UNCHANGED <<platform, disk, admitted, touched, diskAtStart>>
    /\ UNCHANGED <<searchVars, readVars, probeVars>>

RemoveAllowedDirectory ==
    /\ ncalls < MaxCalls
    /\ \E directory \in ConfigDirs :
          \E r \in {removeAllowedDirectory(allowedDirectories, directory)} :
             /\ allowedDirectories' = r.dirs
             /\ call' = Returned("removeAllowedDirectory", Str(directory), r)
    /\ ncalls' = ncalls + 1
    /\ UNCHANGED <<platform, disk, admitted, touched, diskAtStart>>
    /\ UNCHANGED <<searchVars, readVars, probeVars>>

ConfigInit ==
    /\ platform = "linux"
    /\ allowedDirectories \in ConfigAllowLists
    /\ disk = DiskOf(LinuxNodes)
    /\ call = NoCall
    /\ admitted = {}
    /\ touched = {}
    /\ diskAtStart = disk
    /\ ncalls = 0
    /\ SearchIdle

ConfigNext ==
    \/ SetConfigValue
    \/ AddAllowedDirectory
    \/ RemoveAllowedDirectory

SpecConfig == ConfigInit /\ [][ConfigNext]_vars

-----------------------------------------------------------------------------
(* The allow-list is never empty *)

\* the call that has just returned left the stored list as it was
LeftUnchanged == allowedDirectories = call.before

\* a request to store the empty list, as an array or as its JSON text
AsksForEmpty == call.op = "setConfigValue" /\ call.arg \in {Arr(<<>>), Str("[]")}

-----------------------------------------------------------------------------
(* Calls that must not change the allow-list *)

\* the directories a setConfigValue request names: the items of an array,
\* given as such or as JSON text, or the one string given
Asked(value) ==
    LET parsed == IF value.t = "string" /\ JSONParse(value.s).ok
                  THEN JSONParse(value.s).value ELSE value
        items == IF parsed.t = "array" THEN parsed.items ELSE <<parsed>>
    IN {items[i].s : i \in {j \in 1..Len(items) : items[j].t = "string"}}

\* the call that has just returned named a directory that may not be allowed
NamedRejected ==
    \/ /\ call.op = "addAllowedDirectory"
       /\ ~validateAllowedDirectory(call.arg.s)
    \/ /\ call.op = "setConfigValue"
       /\ \E d \in Asked(call.arg) : ~validateAllowedDirectory(d)

\* C29: removeAllowedDirectory always returns an error result and changes
\* nothing; addAllowedDirectory, and setConfigValue for allowedDirectories,
\* given a directory that validateAllowedDirectory rejects return an error
\* result and change nothing.
C29_RejectedCallsChangeNothing ==
    /\ call.op = "removeAllowedDirectory" => call.isError /\ LeftUnchanged
    /\ (call.op \in {"addAllowedDirectory", "setConfigValue"} /\ NamedRejected)
          => call.isError /\ LeftUnchanged

\* a OneDrive folder was refused after a directory had been added
C29_Witness ==
    /\ call.op = "addAllowedDirectory"
    /\ call.arg = Str("/u/OneDrive - Corp")
    /\ call.isError
    /\ allowedDirectories = <<"/ws", "/tmp">>
    /\ ncalls = 2

\* the disabled removal was asked for a directory that is stored
RemovalRefused ==
    /\ call.op = "removeAllowedDirectory"
    /\ call.arg.s \in Range(allowedDirectories)
    /\ call.isError

\* a list holding one sensitive directory was refused as a whole
ListWithSensitiveRefused ==
    /\ call.op = "setConfigValue"
    /\ call.arg = Arr(<<Str("/tmp"), Str("/etc")>>)
    /\ call.isError
    /\ LeftUnchanged

-----------------------------------------------------------------------------
(* The filePattern of searchTextInFiles: a glob for the engine (-g), the    *)
(* source of a regular expression for the fallback walker.  Every file lies *)
(* in the allowed root and holds one line that matches the search pattern.  *)

RECURSIVE GlobMatch(_, _)
\* whether the engine's -g glob selects a file of that name: "*" stands for
\* any run of characters, "?" for one, "\" takes the next character as it is
GlobMatch(glob, name) ==
    IF glob = "" THEN name = ""
    ELSE LET g == SubSeq(glob, 1, 1)
             rest == SubSeq(glob, 2, Len(glob))
         IN IF g = "*"
            THEN \E k \in 1..(Len(name) + 1) :
                    GlobMatch(rest, SubSeq(name, k, Len(name)))
            ELSE IF g = "?"
                 THEN name # "" /\ GlobMatch(rest, SubSeq(name, 2, Len(name)))
                 ELSE IF g = "\\" /\ rest # ""
                      THEN /\ name # ""
                           /\ SubSeq(name, 1, 1) = SubSeq(rest, 1, 1)
                           /\ GlobMatch(SubSeq(rest, 2, Len(rest)),
                                        SubSeq(name, 2, Len(name)))
                      ELSE /\ name # ""
                           /\ SubSeq(name, 1, 1) = g
                           /\ GlobMatch(rest, SubSeq(name, 2, Len(name)))

\* file patterns a caller may pass
FilePatterns == { "*.txt", "?.md", "a.txt", "a*", ".txt", "\\.txt$" }

\* names of the files the searched directory may hold, in listing order
PatternNameOrder == << "a.txt", "a.txt.bak", "atxt", "b.md" >>

\* the names fs.readdir(rootPath) yields
PatternEntries ==
    SelectSeq(PatternNameOrder, LAMBDA n : IsFile(disk, Child("/ws", n)))

\* one result per selected file: its matching line
FileResults(names) ==
    [i \in 1..Len(names) |-> Child("/ws", names[i])]

PatternInit ==
    /\ platform = "linux"
    /\ allowedDirectories = <<"/ws">>
    /\ disk \in { DiskOf({Node("/ws", "dir", "")}
                         \cup {Node(Child("/ws", n), "file", "") : n \in held}) :
                  held \in SUBSET Range(PatternNameOrder) }
    /\ call = NoCall
    /\ admitted = {}
    /\ touched = {}
    /\ diskAtStart = disk
    /\ ncalls = 0
    /\ SearchIdle

\* a caller invokes searchTextInFiles({rootPath, pattern, filePattern})
PatternSearchStart ==
    /\ sc = NoSearch
    /\ nsearch < MaxSearches
    /\ \E filePattern \in FilePatterns :
          sc' = [NoSearch EXCEPT !.op = "searchTextInFiles", !.pc = "check",
                                 !.rootPath = "/ws", !.validPath = "/ws",
                                 !.pattern = "foo",
                                 !.filePattern = filePattern]
    /\ nsearch' = nsearch + 1
    /\ UNCHANGED <<gateVars, readVars, probeVars, ripgrepAvailable, probe, rg,
                   stack, results, slog, timers>>

\* searchCode: the engine is there and runs with -g filePattern
SearchCodeWithGlob ==
    /\ sc.op = "searchTextInFiles"
    /\ sc.pc = "check"
    /\ sc.filePattern # ""
    /\ sc' = [sc EXCEPT !.pc = "done", !.served = "engine",
                        !.returned = FileResults(SelectSeq(PatternEntries,
                            LAMBDA n : GlobMatch(sc.filePattern, n)))]
    /\ UNCHANGED <<gateVars, readVars, probeVars, ripgrepAvailable, probe, rg,
                   stack, results, slog, timers, nsearch>>

\* what searchCodeFallback settles with: new RegExp(filePattern) is built
\* before the walk and outside any try, so its SyntaxError rejects the call
searchCodeFallbackFiles(filePattern, names) ==
    LET fileRegex == RegExp(filePattern, FALSE)
    IN IF ~fileRegex.ok
       THEN [error |-> "SyntaxError: Invalid regular expression",
             names |-> <<>>]
       ELSE [error |-> "",
             names |-> SelectSeq(names, LAMBDA n : Test(fileRegex, n))]

\* searchCode threw (no engine, or the engine failed) and searchCodeFallback
\* serves the call
SearchCodeFallbackWithRegex ==
    /\ sc.op = "searchTextInFiles"
    /\ sc.pc = "check"
    /\ sc.filePattern # ""
    /\ \E r \in {searchCodeFallbackFiles(sc.filePattern, PatternEntries)} :
          sc' = [sc EXCEPT !.pc = "done", !.served = "fallback",
                           !.error = r.error,
                           !.returned = FileResults(r.names)]
    /\ UNCHANGED <<gateVars, readVars, probeVars, ripgrepAvailable, probe, rg,
                   stack, results, slog, timers, nsearch>>

PatternNext ==
    \/ PatternSearchStart
    \/ SearchCodeWithGlob
    \/ SearchCodeFallbackWithRegex
    \/ SearchReturn

SpecPattern == PatternInit /\ [][PatternNext]_vars

\* a search with a file pattern has settled
PatternSearchSettled ==
    sc.op = "searchTextInFiles" /\ sc.pc = "done" /\ sc.filePattern # ""

\* the files of the searched directory whose name the glob selects
GlobSelected == FileResults(SelectSeq(PatternEntries,
                                LAMBDA n : GlobMatch(sc.filePattern, n)))

\* C30: for a filePattern written as a glob, searchTextInFiles completes
\* without error and returns the matches of the files whose name matches the
\* glob, whether the engine or the fallback walker serves the call.
C30_GlobServedAlikeByBoth ==
    PatternSearchSettled => sc.error = "" /\ sc.returned = GlobSelected

\* the fallback rejected the glob "*.txt" as a regular expression although
\* the directory holds a file of that kind
GlobRejectedByFallback ==
    /\ PatternSearchSettled
    /\ sc.served = "fallback"
    /\ sc.filePattern = "*.txt"
    /\ sc.error # ""
    /\ GlobSelected # <<>>

\* the fallback took the glob "a*" as a regular expression and returned
\* files the glob does not select
GlobReadAsRegex ==
    /\ PatternSearchSettled
    /\ sc.served = "fallback"
    /\ sc.filePattern = "a*"
    /\ sc.error = ""
    /\ \E i \in 1..Len(sc.returned) : sc.returned[i] \notin Range(GlobSelected)

-----------------------------------------------------------------------------
(* Telemetry of absorbed failures *)

\* searchTextInFiles has settled after the probe or the engine had failed
\* and the fallback walker had taken over
SettledAfterAbsorbedFailure ==
    /\ sc.op = "searchTextInFiles"
    /\ sc.pc = "done"
    /\ slog.failed # {}

\* C31: every probe or engine failure that is absorbed into the fallback
\* path results in a telemetry event before the call returns.
C31_AbsorbedFailuresAreCaptured ==
    SettledAfterAbsorbedFailure => slog.captured # {}

\* the call returned the fallback's results after a failure of which
\* capture() was never told
FailureWithoutTrace ==
    /\ SettledAfterAbsorbedFailure
    /\ sc.served = "fallback"
    /\ sc.error = ""
    /\ Len(sc.returned) > 0
    /\ slog.captured = {}

\* a denial by validatePath is the failure that does reach capture()
DenialIsCaptured ==
    /\ sc.pc = "done"
    /\ sc.error = Denied.error
    /\ "server_path_validation_error" \in slog.captured

-----------------------------------------------------------------------------
(* The traversal check and names that hold two dots *)

\* the resolved path holds ".." inside a component name although none of
\* its components is the parent-directory segment
DotsInsideAName(p) ==
    LET segs == Split(NoDrive(PathResolve(toAbsolutePath(p))))
    IN /\ ".." \notin Range(segs)
       /\ \E i \in 1..Len(segs) : Includes(segs[i], "..")

\* p lies inside an allowed directory that is not a filesystem root
InsideAllowedBelowRoot(p) ==
    \E dir \in Holders(toAbsolutePath(p)) : Len(Segments(dir)) > 1

\* C32: the traversal check denies a path only for a parent-directory
\* segment: a path nested under an allowed directory whose component names
\* hold the characters ".." without any component being ".." is admitted.
C32_DotsInsideANameAdmitted ==
    (call.op \in GateOps /\ DeniedNow)
        => ~(DotsInsideAName(DeniedArg) /\ InsideAllowedBelowRoot(DeniedArg))

\* the existing file /ws/a..b of the allowed directory /ws was denied
FileNamedWithDotsDenied ==
    /\ allowedDirectories = <<"/ws">>
    /\ call.op = "getFileInfo"
    /\ DeniedNow
    /\ DeniedArg = "/ws/a..b"
    /\ call.error = Denied.error

-----------------------------------------------------------------------------
(* Internal reads from the end of the file *)

\* the last k of the lines, all of them when there are fewer
LastLines(lines, k) == SubSeq(lines, Max(Len(lines) - k, 0) + 1, Len(lines))

\* readFileInternal was called with a negative offset and has its string
InternalTailReadDone == rd.pc = "internal" /\ rd.offset < 0

\* C33: readFileInternal with offset = -k returns the last k lines of the
\* file (all lines when it has fewer), each with its terminator, for every
\* file length and every length argument.
C33_InternalTailReturnsLastLines ==
    InternalTailReadDone =>
        rd.text = JoinEmpty(LastLines(splitLinesPreservingEndings(rd.content),
                                      -rd.offset))

\* the last line of a three-line file was asked for with length 1 and the
\* call returned the empty string
InternalTailCutByLength ==
    /\ InternalTailReadDone
    /\ rd.content = "a\na\na"
    /\ rd.offset = -1
    /\ rd.length = 1
    /\ rd.text = ""

\* with the length of an edit operation the tail is what the call returns
InternalTailWithLargeLength ==
    (InternalTailReadDone /\ rd.length >= MAX_SAFE_INTEGER)
        => rd.text = JoinEmpty(LastLines(splitLinesPreservingEndings(rd.content),
                                         -rd.offset))

-----------------------------------------------------------------------------
(* The totals of the status line *)

\* a display read has returned a FileResult whose status line tells a total
TotalReported == rd.pc = "done" /\ rd.totalLines # Undefined

\* the status line of the text returned
StatusLine == SplitNewline(rd.text)[1]

\* the number of lines the reader returns when the whole file is read
WholeFileLines == Len(Readline(rd.content, 0))

\* C34: when the total is known, the total of the status line is the number
\* of lines the reader itself returns for the whole file, and the remaining
\* count of a forward read is that total minus (offset + lines read), 0 when
\* the read has reached the end of the file.
C34_StatusTotalsAreReaderLines ==
    TotalReported =>
        /\ Includes(StatusLine,
                    "(total: " \o NumberToString(WholeFileLines) \o " lines")
        /\ rd.offset >= 0 =>
              Includes(StatusLine,
                  ", " \o NumberToString(Max(0, WholeFileLines
                                   - (rd.offset + Len(rd.result))))
                       \o " remaining)]")

\* a whole read of a file of one terminated line reported two lines and one
\* remaining
TrailingTerminatorCountsALine ==
    /\ TotalReported
    /\ rd.content = "a\n"
    /\ rd.offset = 0
    /\ rd.length = 2
    /\ rd.result = <<"a">>
    /\ StatusLine = "[Reading 1 lines from start (total: 2 lines, 1 remaining)]"

\* for a file whose lines are separated by "\n" and whose last line is not
\* terminated the totals agree
UnterminatedFile ==
    /\ rd.content # ""
    /\ ~Includes(rd.content, "\r")
    /\ SubSeq(rd.content, Len(rd.content), Len(rd.content)) # "\n"

TotalsAgreeWithoutTrailingTerminator ==
    (TotalReported /\ UnterminatedFile) => C34_StatusTotalsAreReaderLines

-----------------------------------------------------------------------------
(* The order of the fallback walker's records *)

\* searchTextInFiles has settled with the records of the fallback walker
FallbackAnswered ==
    /\ sc.op = "searchTextInFiles"
    /\ sc.pc = "done"
    /\ sc.served = "fallback"
    /\ sc.error = ""

\* the records of one file follow one another
FilesInOneRun(recs) ==
    \A i, k \in 1..Len(recs) :
        (i < k /\ recs[i].file = recs[k].file)
            => \A j \in i..k : recs[j].file = recs[i].file

\* within a file the line numbers never go down
LinesAscend(recs) ==
    \A i, j \in 1..Len(recs) :
        (i < j /\ recs[i].file = recs[j].file) => recs[i].line <= recs[j].line

\* C35: within one file the records the fallback walker emits (matching
\* lines and their context lines) are in non-decreasing line-number order,
\* and the files follow one another in traversal order.
C35_FallbackRecordsInFileOrder ==
    FallbackAnswered => FilesInOneRun(sc.returned) /\ LinesAscend(sc.returned)

\* a context line that precedes its match was emitted after the match
ContextBeforeMatchComesLate ==
    /\ FallbackAnswered
    /\ sc.contextLines = 1
    /\ \E i \in 1..(Len(sc.returned) - 1) :
          /\ sc.returned[i].file = "/ws/a"
          /\ sc.returned[i + 1].file = "/ws/a"
          /\ sc.returned[i].line = 2
          /\ sc.returned[i + 1].line = 1

\* without context lines the order is the order of the file
FallbackMatchesInFileOrder ==
    (FallbackAnswered /\ sc.contextLines = 0)
        => FilesInOneRun(sc.returned) /\ LinesAscend(sc.returned)

-----------------------------------------------------------------------------
(* The two tail readers on the same content *)

RECURSIVE CircularFill(_, _, _, _)
\* the loop of readFromEndWithReadline over the lines still to come, and
\* the extraction that follows it
CircularFill(buffer, bufferIndex, totalLines, pending) ==
    LET requestedLines == Len(buffer) IN
    IF pending # <<>>
    THEN CircularFill([buffer EXCEPT ![bufferIndex + 1] = <<Head(pending)>>],
                      (bufferIndex + 1) % requestedLines, totalLines + 1,
                      Tail(pending))
    ELSE IF totalLines >= requestedLines
         THEN Defined(SubSeq(buffer, bufferIndex + 1, requestedLines)
                      \o SubSeq(buffer, 1, bufferIndex))
         ELSE Defined(SubSeq(buffer, 1, totalLines))

\* the lines readFromEndWithReadline returns for a file of that content
CircularRead(content, requestedLines) ==
    CircularFill([i \in 1..requestedLines |-> Hole], 0, 0,
                 Readline(content, 0))

\* C36: for the same content and the same k the backward chunk reader and
\* the circular-buffer reader return the same sequence of lines.
C36_TailReadersAgree ==
    (TailReadDone /\ rd.strategy = "reverse")
        => rd.result = CircularRead(rd.content, -rd.offset)

\* what the circular reader returns in a run is what CircularRead computes
CircularReadIsTheReader ==
    (TailReadDone /\ rd.strategy = "circular")
        => rd.result = CircularRead(rd.content, -rd.offset)

\* the backward reader returned the empty entry after the last terminator
\* where the circular reader returns the last line
TailReadersDisagree ==
    /\ TailReadDone
    /\ rd.strategy = "reverse"
    /\ rd.content = "aaaa\n"
    /\ rd.offset = -1
    /\ rd.result = <<"">>
    /\ CircularRead(rd.content, 1) = <<"aaaa">>

-----------------------------------------------------------------------------
(* The estimate of readFromEstimatedPosition on lines of one length *)

\* every line of the content has the same number of bytes and ends in \n
UniformLines(content) ==
    LET lines == Readline(content, 0) IN
    /\ content # ""
    /\ ~Includes(content, "\r")
    /\ SubSeq(content, Len(content), Len(content)) = "\n"
    /\ \A i \in 1..Len(lines) : Len(lines[i]) = Len(lines[1])

\* readFromEstimatedPosition has returned the lines it collected at its
\* estimated position
EstimatedReadDone ==
    /\ rd.pc = "done"
    /\ rd.strategy = "sample"
    /\ rd.offset > DEEP_OFFSET_THRESHOLD

\* C37: when every line of the file has the same byte length and ends in
\* \n, readFromEstimatedPosition returns exactly the lines at the 0-based
\* indices [offset, offset + length): the line it discards as possibly
\* partial is never a requested line.
C37_EstimateExactOnUniformLines ==
    (EstimatedReadDone /\ UniformLines(rd.content))
        => rd.result = Slice(Readline(rd.content, 0), rd.offset,
                             rd.offset + rd.length)

\* the stream began exactly at the line asked for, which was discarded as
\* the possibly partial one: the file's third line was asked for and nothing
\* was returned
EstimateDiscardsRequestedLine ==
    /\ EstimatedReadDone
    /\ rd.content = "a\na\na\n"
    /\ rd.offset = 2
    /\ rd.length = 1
    /\ rd.startPosition = 4
    /\ rd.firstLineSkipped
    /\ rd.result = <<>>

\* on such files the reader returns the lines that follow the one asked for
EstimateIsOneLineLate ==
    (EstimatedReadDone /\ UniformLines(rd.content))
        => rd.result = Slice(Readline(rd.content, 0), rd.offset + 1,
                             rd.offset + 1 + rd.length)

-----------------------------------------------------------------------------
(* The list searchFiles returned and the traversal that is still running *)

\* searchFiles has returned its results array to the caller
SearchFilesReturnedList ==
    /\ sc.op = "searchFiles"
    /\ sc.pc = "done"
    /\ sc.error = ""

\* C38: after searchFiles has returned a result list (in particular a
\* partial list after a timeout), no still-running part of the traversal
\* appends to it: the array the caller holds keeps the content it had at
\* return time.
C38_ReturnedListIsFinal ==
    SearchFilesReturnedList => results = sc.returned

\* the walker, resumed after the timer had settled the call with a partial
\* list, pushed one more path onto the array the caller holds
PartialListGrewAfterReturn ==
    /\ SearchFilesReturnedList
    /\ sc.timer = "fired"
    /\ sc.searchCancelled
    /\ Len(sc.returned) > 0
    /\ Len(results) = Len(sc.returned) + 1
    /\ SubSeq(results, 1, Len(sc.returned)) = sc.returned

\* a call the timer did not settle returns a list nothing is appended to
CompletedListIsFinal ==
    (SearchFilesReturnedList /\ sc.timer # "fired") => results = sc.returned


\* the caller was handed ["/ws/a"] and now holds ["/ws/a", "/ws/sub"]
ReturnedListGainedSub ==
    /\ PartialListGrewAfterReturn
    /\ sc.returned = <<"/ws/a">>
    /\ results = <<"/ws/a", "/ws/sub">>

-----------------------------------------------------------------------------
(* The timer of searchFiles after the call has settled *)

\* C39: however searchFiles settles (with results, with a denial of the
\* root path, or with a timeout), its timer never fires as a rejection of
\* timeoutPromise that no handler observes, and a timer left over from a
\* completed search has no effect on a later call.
C39_TimerRejectionAlwaysObserved ==
    timers.unhandled = 0

\* searchFiles has rethrown the denial of its root path: Promise.race was
\* never reached and the timer is still pending
DeniedRootLeavesTimerPending ==
    /\ sc.op = "searchFiles"
    /\ sc.pc = "done"
    /\ sc.error # ""
    /\ ~sc.raced
    /\ sc.timer = "pending"

\* the timer of a call that was denied its root has fired after the call
\* returned, rejecting a promise nothing listens to
UnobservedRejectionAfterReturn ==
    /\ sc = NoSearch
    /\ timers.unhandled > 0

\* the rejection is unobserved only when the call never reached Promise.race
OnlyUnracedTimersGoUnobserved ==
    [][timers'.unhandled > timers.unhandled
         => \/ timers'.unraced < timers.unraced
            \/ (sc.op = "searchFiles" /\ ~sc.raced /\ sc'.timer = "fired")]_vars

\* a timer left over from an earlier call touches nothing of the call in
\* progress: the searchCancelled it sets belongs to the earlier closure
LeftoverTimerLeavesCallsAlone ==
    [][(timers'.raced < timers.raced \/ timers'.unraced < timers.unraced)
         => UNCHANGED <<sc, stack, results>>]_vars

-----------------------------------------------------------------------------
(* addAllowedDirectory step by step: two calls side by side *)

\* the callers of addAllowedDirectory that run side by side
Adders == 1..2

\* a caller that has not called yet; in flight, a call is suspended at
\* `await configManager.getConfig()` or at `await configManager.setValue()`
\* and holds the newDirs it computed from the list it read
NoAdd == [pc |-> "idle", directory |-> "", before |-> <<>>,
          newDirs |-> <<>>, isError |-> FALSE]

\* caller c invokes addAllowedDirectory({directory}): the validation runs
\* at once, then the call waits for getConfig
AddStart ==
    \E c \in Adders, directory \in ConfigDirs :
       /\ call[c].pc = "idle"
       /\ call' = [call EXCEPT ![c] =
                     IF ~validateAllowedDirectory(directory)
                     THEN [NoAdd EXCEPT !.pc = "done", !.directory = directory,
                                        !.before = allowedDirectories,
                                        !.isError = TRUE]
                     ELSE [NoAdd EXCEPT !.pc = "getConfig",
                                        !.directory = directory,
                                        !.before = allowedDirectories]]
       /\ UNCHANGED <<platform, allowedDirectories, disk, admitted, touched,
                      diskAtStart, ncalls>>
       /\ UNCHANGED <<searchVars, readVars, probeVars>>

\* getConfig() of caller c has settled: currentDirs is the stored list, and
\* newDirs is built from it unless the directory is already there
AddGetConfigDone ==
    \E c \in Adders :
       /\ call[c].pc = "getConfig"
       /\ LET currentDirs == allowedDirectories IN
          call' = [call EXCEPT ![c] =
                     IF call[c].directory \in Range(currentDirs)
                     THEN [@ EXCEPT !.pc = "done"]
                     ELSE [@ EXCEPT !.pc = "setValue",
                                    !.newDirs = Append(currentDirs,
                                                       call[c].directory)]]
       /\ UNCHANGED <<platform, allowedDirectories, disk, admitted, touched,
                      diskAtStart, ncalls>>
       /\ UNCHANGED <<searchVars, readVars, probeVars>>

\* setValue('allowedDirectories', newDirs) of caller c stores its list
AddSetValueDone ==
    \E c \in Adders :
       /\ call[c].pc = "setValue"
       /\ \E stored \in {setValue(allowedDirectories,
                                  Arr([i \in 1..Len(call[c].newDirs) |->
                                         Str(call[c].newDirs[i])]))} :
             /\ allowedDirectories' = stored.dirs
             /\ call' = [call EXCEPT ![c] = [@ EXCEPT !.pc = "done",
                                                      !.isError = stored.threw]]
       /\ UNCHANGED <<platform, disk, admitted, touched, diskAtStart, ncalls>>
       /\ UNCHANGED <<searchVars, readVars, probeVars>>

AddInit ==
    /\ platform = "linux"
    /\ allowedDirectories \in ConfigAllowLists
    /\ disk = DiskOf(LinuxNodes)
    /\ call = [c \in Adders |-> NoAdd]
    /\ admitted = {}
    /\ touched = {}
    /\ diskAtStart = disk
    /\ ncalls = 0
    /\ SearchIdle

AddNext ==
    \/ AddStart
    \/ AddGetConfigDone
    \/ AddSetValueDone

SpecAdd == AddInit /\ [][AddNext]_vars

\* both callers have completed calls that named distinct valid directories
BothAddsCompleted ==
    /\ \A c \in Adders : call[c].pc = "done" /\ ~call[c].isError
    /\ call[1].directory # call[2].directory

\* C40: two addAllowedDirectory calls with distinct valid directories whose
\* steps interleave at their awaits both take effect: once both have
\* completed, allowedDirectories holds both directories and every directory
\* it held before.
C40_BothAddsTakeEffect ==
    BothAddsCompleted =>
       \A c \in Adders :
          /\ call[c].directory \in Range(allowedDirectories)
          /\ Range(call[c].before) \subseteq Range(allowedDirectories)

\* both calls reported success and the directory of one of them is not in
\* the stored list: the later setValue stored a list built before the
\* earlier one
AddLostToLaterWrite ==
    /\ BothAddsCompleted
    /\ \E c \in Adders :
          /\ call[c].newDirs # <<>>
          /\ call[c].directory \notin Range(allowedDirectories)

\* the directories stored before are never lost, and the call that stored
\* last always finds its directory in the list
LastWriterAndEarlierEntriesKept ==
    BothAddsCompleted =>
       /\ \A c \in Adders :
             Range(call[c].before) \subseteq Range(allowedDirectories)
       /\ \E c \in Adders : call[c].directory \in Range(allowedDirectories)

=============================================================================
